---- MODULE Spec2Model ----
(***************************************************************************)
(* Model of the boostable-bosses parser of phenpessoa/tibia-crawler:       *)
(* parsers/boostablebosses/boostablebosses.go (Parse, maybeUpdateCache,    *)
(* isServerSaveTime, fetch, makeRequest, parse, getLines, readTodaysLine,  *)
(* readBossesLine, load, store) together with parsers.Options.             *)
(*                                                                         *)
(* Text is a sequence of tokens.  A token stands for a run of characters   *)
(* that no marker straddles; the double quote is a token of its own since  *)
(* it is both a marker and a part of other markers.  Offsets are 0-based   *)
(* as in Go, and a slice expression out of range is a panic.               *)
(***************************************************************************)
EXTENDS Integers, Sequences, FiniteSets, TLC

----------------------------------------------------------------------------
(* Go's strings package on token sequences *)

Quote == "\""
NL == "\n"

\* s[i:] starts with sub
HasPrefixAt(s, sub, i) ==
    /\ i + Len(sub) <= Len(s)
    /\ \A k \in 1..Len(sub) : s[i + k] = sub[k]

\* strings.Index(s, sub): the first offset of sub in s, or -1
Index(s, sub) ==
    LET hits == {i \in 0..(Len(s) - Len(sub)) : HasPrefixAt(s, sub, i)}
    IN  IF hits = {} THEN -1
        ELSE CHOOSE i \in hits : \A j \in hits : i <= j

\* strings.Contains(s, sub)
Contains(s, sub) == Index(s, sub) # -1

\* s[a:b] is evaluated without a panic
InRange(s, a, b) == 0 <= a /\ a <= b /\ b <= Len(s)

\* s[a:b], for a and b in range
Slice(s, a, b) == SubSeq(s, a + 1, b)

\* s[a:], for a in range
From(s, a) == SubSeq(s, a + 1, Len(s))

\* strings.Split(s, "\n"): always at least one element
RECURSIVE Split(_)
Split(s) ==
    LET i == Index(s, <<NL>>)
    IN  IF i = -1 THEN <<s>>
        ELSE <<Slice(s, 0, i)>> \o Split(From(s, i + 1))

----------------------------------------------------------------------------
(* The markers of boostablebosses.go *)

startIndexer == <<"<div class=", Quote, "main-content Content", Quote, ">">>
endIndexer ==
    <<"<div id=", Quote, "Footer", Quote, " class=", Quote, "main-footer",
      Quote, ">">>

todayChecker == <<"Today's boosted boss: ">>
bossesChecker == <<"<div class=", Quote, "CaptionContainer", Quote, ">">>

todayBossIndexer == <<"title=", Quote>> \o todayChecker
endTodayBossIndexer == <<Quote, " src=", Quote>>

todayBossImgIndexer ==
    <<"https://static.tibia.com/images/", "global/header/monsters/">>
endTodayBossImgIndexer == <<Quote, " onClick=", Quote>>

bossesImgIndexer == <<"https://static.tibia.com/images/", "library/">>
endBossesImgIndexer == <<Quote>>

bossesNameIndexer == <<"border=0 ", "/> ", "<div>">>
endBossesNameIndexer == <<"</div>">>

----------------------------------------------------------------------------
(* tibia.BoostableBoss and tibia.BoostableBosses *)

BoostableBoss(name, img, boosted) ==
    [Name |-> name, ImageURL |-> img, IsBoosted |-> boosted]

ZeroBoss == BoostableBoss(<<>>, <<>>, FALSE)

\* the zero value tibia.BoostableBosses{}
ZeroBosses == [Boosted |-> ZeroBoss, Bosses |-> <<>>]

----------------------------------------------------------------------------
(* Outcomes of the extraction functions: a value, a returned error, or a   *)
(* run-time panic (slice bounds out of range).                             *)

NotRun == [st |-> "none", msg |-> "", val |-> <<>>]
Ok(v) == [st |-> "ok", msg |-> "", val |-> v]
Fail(m) == [st |-> "err", msg |-> m, val |-> <<>>]
Panic == [st |-> "panic", msg |-> "slice bounds out of range", val |-> <<>>]

\* a getLines that slices from startIdx without testing it
getLinesNoStartCheck(data) ==
    LET startIdx == Index(data, startIndexer)
    IN  IF ~InRange(data, startIdx, Len(data)) THEN Panic
        ELSE Ok(Split(From(data, startIdx)))

\* Parser.getLines
getLines(data) ==
    LET startIdx == Index(data, startIndexer)
    IN  IF startIdx = -1
        THEN Fail("boostable bosses: main content not found")
        ELSE
          LET endIdx == Index(From(data, startIdx), endIndexer) + startIdx
          IN  IF endIdx = -1
              THEN Fail("boostable bosses: end of content not found")
              ELSE IF ~InRange(data, startIdx, endIdx) THEN Panic
              ELSE
                LET lines == Split(Slice(data, startIdx, endIdx))
                IN  IF Len(lines) = 0
                    THEN Fail("boostable bosses: no lines found")
                    ELSE Ok(lines)

\* Parser.readTodaysLine
readTodaysLine(line) ==
    LET todayBossIdx == Index(line, todayBossIndexer) + Len(todayBossIndexer)
    IN
    IF todayBossIdx = -1
    THEN Fail("boostable bosses: today boss idx not found")
    ELSE IF ~InRange(line, todayBossIdx, Len(line)) THEN Panic
    ELSE
      LET endTodayBossIdx ==
              Index(From(line, todayBossIdx), endTodayBossIndexer)
                + todayBossIdx
      IN
      IF endTodayBossIdx = -1
      THEN Fail("boostable bosses: today boss end idx not found")
      ELSE IF ~InRange(line, todayBossIdx, endTodayBossIdx) THEN Panic
      ELSE
        LET name == Slice(line, todayBossIdx, endTodayBossIdx)
            todayBossImgIdx ==
              Index(From(line, todayBossIdx), todayBossImgIndexer)
                + todayBossIdx
        IN
        IF todayBossImgIdx = -1
        THEN Fail("boostable bosses: today boss img idx not found")
        ELSE IF ~InRange(line, todayBossImgIdx, Len(line)) THEN Panic
        ELSE
          LET endTodayBossImgIdx ==
                  Index(From(line, todayBossImgIdx), endTodayBossImgIndexer)
                    + todayBossImgIdx
          IN
          IF endTodayBossImgIdx = -1
          THEN Fail("boostable bosses: today boss end img idx not found")
          ELSE IF ~InRange(line, todayBossImgIdx, endTodayBossImgIdx)
          THEN Panic
          ELSE Ok(BoostableBoss(
                      name,
                      Slice(line, todayBossImgIdx, endTodayBossImgIdx),
                      TRUE))

\* a listing in which no boss is marked
NeverBoosted(name, boosted) == FALSE

\* readBossesLine: IsBoosted: name == boosted.Name
IsBoosted(name, boosted) == name = boosted.Name

\* a loop that goes on from the name marker it has just read
AdvanceToMarker(line, endNameIdx) ==
    From(line, endNameIdx - Len(bossesNameIndexer))

\* readBossesLine: line = line[endNameIdx-1:]
Advance(line, endNameIdx) == From(line, endNameIdx - 1)

\* the loop has come to its end, has returned or panicked with out, or goes
\* on with the rest of the line after appending boss
LoopEnd == [st |-> "end", out |-> NotRun, boss |-> ZeroBoss, rest |-> <<>>]
LoopOut(o) == [st |-> "out", out |-> o, boss |-> ZeroBoss, rest |-> <<>>]
LoopOn(b, l) == [st |-> "on", out |-> NotRun, boss |-> b, rest |-> l]

\* Parser.readBossesLine: one evaluation of the loop condition and, when
\* it holds, of the loop body
readBossesIter(line, boosted) ==
    LET idx == Index(line, bossesImgIndexer)
    IN
    IF idx = -1 THEN LoopEnd
    ELSE
      LET imgIdx == Index(line, bossesImgIndexer)
          endImgIdx == Index(From(line, imgIdx), endBossesImgIndexer) + imgIdx
      IN
      IF imgIdx = -1 THEN LoopOut(Fail("boostable bosses: img idx not found"))
      ELSE IF endImgIdx = -1
      THEN LoopOut(Fail("boostable bosses: end img idx not found"))
      ELSE IF ~InRange(line, imgIdx, endImgIdx) THEN LoopOut(Panic)
      ELSE
        LET img == Slice(line, imgIdx, endImgIdx)
            nameIdx == Index(line, bossesNameIndexer) + Len(bossesNameIndexer)
        IN
        IF nameIdx = -1
        THEN LoopOut(Fail("boostable bosses: name idx not found"))
        ELSE IF ~InRange(line, nameIdx, Len(line)) THEN LoopOut(Panic)
        ELSE
          LET endNameIdx ==
                  Index(From(line, nameIdx), endBossesNameIndexer) + nameIdx
          IN
          IF endNameIdx = -1
          THEN LoopOut(Fail("boostable bosses: end name idx not found"))
          ELSE IF ~InRange(line, nameIdx, endNameIdx) THEN LoopOut(Panic)
          ELSE
            LET name == Slice(line, nameIdx, endNameIdx)
                boss == BoostableBoss(name, img, IsBoosted(name, boosted))
            IN  IF ~InRange(line, endNameIdx - 1, Len(line))
                THEN LoopOut(Panic)
                ELSE LoopOn(boss, Advance(line, endNameIdx))

\* Parser.readBossesLine: the loop, with the bosses appended so far
RECURSIVE readBossesLoop(_, _, _)
readBossesLoop(line, boosted, bosses) ==
    LET it == readBossesIter(line, boosted)
    IN  CASE it.st = "end" -> Ok(bosses)
          [] it.st = "out" -> it.out
          [] it.st = "on" ->
               readBossesLoop(it.rest, boosted, Append(bosses, it.boss))

\* Parser.readBossesLine
readBossesLine(line, boosted) == readBossesLoop(line, boosted, <<>>)

\* a scan that reads every line with the featured marker
IsTodaysLineAlways(line, started) == Contains(line, todayChecker)

\* parse: isTodaysLine := strings.Contains(line, todayChecker) && !started
IsTodaysLine(line, started) == Contains(line, todayChecker) /\ ~started

\* Parser.parse, the loop over the lines from line k on
RECURSIVE scanLines(_, _, _, _)
scanLines(lines, k, parsed, started) ==
    IF k > Len(lines) THEN Ok(parsed)
    ELSE
      LET line == lines[k]
          isTodaysLine == IsTodaysLine(line, started)
          isBossesLine == Contains(line, bossesChecker)
          today == IF isTodaysLine THEN readTodaysLine(line) ELSE Ok(parsed.Boosted)
          withBoss == [parsed EXCEPT !.Boosted = today.val]
      IN
      IF ~isTodaysLine /\ ~isBossesLine
      THEN scanLines(lines, k + 1, parsed, started)
      ELSE IF today.st # "ok" THEN today
      ELSE IF isBossesLine
      THEN LET bosses == readBossesLine(line, withBoss.Boosted)
           IN  IF bosses.st # "ok" THEN bosses
               ELSE Ok([withBoss EXCEPT !.Bosses = bosses.val])
      ELSE scanLines(lines, k + 1, withBoss, TRUE)

\* Parser.parse up to the call of store: the value handed to store, or the
\* error returned (or the panic raised) before store is reached
parse(data) ==
    LET lines == getLines(data)
    IN  IF lines.st # "ok" THEN lines
        ELSE scanLines(lines.val, 1, ZeroBosses, FALSE)

----------------------------------------------------------------------------
(* Page texts served by the origin *)

\* the featured line: <img title="Today's boosted boss: NAME" src="URL" onClick="
TodayLine(name, file) ==
    <<"<img ">> \o todayBossIndexer \o <<name>> \o endTodayBossIndexer
      \o todayBossImgIndexer \o <<file>> \o endTodayBossImgIndexer

\* one entry of the listing line: <img src="URL" border=0 /> <div>NAME</div>
BossEntry(name, file) ==
    <<"<img src=", Quote>> \o bossesImgIndexer \o <<file, Quote, " ">>
      \o bossesNameIndexer \o <<name>> \o endBossesNameIndexer

RECURSIVE BossEntries(_)
BossEntries(bs) ==
    IF bs = <<>> THEN <<>>
    ELSE BossEntry(bs[1][1], bs[1][2]) \o BossEntries(Tail(bs))

\* a page as tibia.com serves it: header, main content holding the featured
\* line and the listing line, footer
WellFormedPage(today, bs) ==
    <<"<html>", NL>> \o startIndexer \o <<NL>>
      \o TodayLine(today[1], today[2]) \o <<NL>>
      \o bossesChecker \o BossEntries(bs) \o <<NL>>
      \o endIndexer \o <<"</html>">>

\* The bodies the origin can answer with: two well-formed pages that differ
\* in the featured boss and in the list, a page without the main content
\* (the maintenance page), and a page cut off before the footer.
Pages ==
    << WellFormedPage(<<"Utua", "utua.gif">>,
                      << <<"Gnomevil", "gnome.gif">>, <<"Utua", "utua.gif">> >>),
       WellFormedPage(<<"Gnomevil", "gnome.gif">>,
                      << <<"Gnomevil", "gnome.gif">>, <<"Utua", "utua.gif">>,
                         <<"Sharpclaw", "sharpclaw.gif">> >>),
       <<"<html>", NL, "maintenance", NL, "</html>">>,
       <<"<html>", NL>> \o startIndexer \o <<NL>>
         \o TodayLine("Utua", "utua.gif") >>

PageIds == DOMAIN Pages

\* the text of data: page b, or the empty string (var data string)
PageText(b) == IF b = 0 THEN <<>> ELSE Pages[b]

\* parse of each page, computed once
parsePage == [b \in {0} \cup PageIds |-> parse(PageText(b))]

\* the Result of an earlier fetch of the first page
PriorSnapshot == parsePage[1].val

----------------------------------------------------------------------------
(* Texts handed to parse on their own.  A text is described by what it is  *)
(* made of and rendered to tokens: an optional lead before the main        *)
(* content, the start marker or not, up to two lines, the footer marker or *)
(* not.  A line is a featured line, a listing line or another line; a      *)
(* featured or listing line may be cut off before its last closing marker. *)

\* most image/name pairs in a listing line
MaxBosses == 3

\* boss names; a name is a sequence of tokens, the empty name has none
BossNames == {<<"Utua">>, <<"Gnomevil">>, <<"Sharpclaw">>}
ListedNames == BossNames \cup {<<>>}

\* the file of the image of a boss
FileOf(name) == IF name = <<>> THEN "noname.gif" ELSE name[1] \o ".gif"

TodayL(name, cut) == [kind |-> "today", names |-> <<name>>, cut |-> cut]
BossesL(names, cut) == [kind |-> "bosses", names |-> names, cut |-> cut]
OtherL == [kind |-> "other", names |-> <<>>, cut |-> FALSE]

NameLists == UNION {[1..n -> ListedNames] : n \in 0..MaxBosses}

LineDescs ==
    {TodayL(n, c) : n \in BossNames, c \in BOOLEAN}
      \cup {BossesL(ns, c) : ns \in NameLists, c \in BOOLEAN}
      \cup {OtherL}

\* the lines between the markers: none, one, or two with at most one listing
BodyDescs ==
    {<<>>} \cup {<<a>> : a \in LineDescs}
      \cup {ls \in LineDescs \X LineDescs :
               ~(ls[1].kind = "bosses" /\ ls[2].kind = "bosses")}

PageDescs ==
    [lead : BOOLEAN, start : BOOLEAN, lines : BodyDescs, footer : BOOLEAN]

NoPage == [lead |-> FALSE, start |-> FALSE, lines |-> <<>>, footer |-> FALSE]

\* drop the last n tokens
DropLast(s, n) == SubSeq(s, 1, Len(s) - n)

\* one entry of the listing line, the name a sequence of tokens
Entry(name) ==
    <<"<img src=", Quote>> \o bossesImgIndexer \o <<FileOf(name), Quote, " ">>
      \o bossesNameIndexer \o name \o endBossesNameIndexer

RECURSIVE Entries(_)
Entries(names) ==
    IF names = <<>> THEN <<>>
    ELSE Entry(Head(names)) \o Entries(Tail(names))

\* the tokens of a line
RenderLine(l) ==
    CASE l.kind = "today" ->
           LET whole == TodayLine(l.names[1][1], FileOf(l.names[1]))
           IN  IF l.cut THEN DropLast(whole, Len(endTodayBossImgIndexer))
               ELSE whole
      [] l.kind = "bosses" ->
           LET whole == bossesChecker \o Entries(l.names)
           IN  IF l.cut /\ l.names # <<>>
               THEN DropLast(whole, Len(endBossesNameIndexer))
               ELSE whole
      [] OTHER -> <<"<p>", "Boostable Bosses", "</p>">>

RECURSIVE RenderLines(_)
RenderLines(ls) ==
    IF ls = <<>> THEN <<>>
    ELSE RenderLine(Head(ls)) \o <<NL>> \o RenderLines(Tail(ls))

\* the tokens of a text
Render(d) ==
    (IF d.lead THEN <<"<html>", NL>> ELSE <<>>)
      \o (IF d.start THEN startIndexer \o <<NL>> ELSE <<>>)
      \o RenderLines(d.lines)
      \o (IF d.footer THEN endIndexer ELSE <<>>)
      \o <<"</html>">>

----------------------------------------------------------------------------
(* Errors: a message and the sentinel of parsers/errors.go that errors.Is  *)
(* finds in the chain ("none" when the error wraps no sentinel).           *)

Nil == [msg |-> "", wraps |-> "nil"]
Error(m, w) == [msg |-> m, wraps |-> w]

ErrCtxDone == Error("parsers: ctx done", "ErrCtxDone")
ErrMaintenance ==
    Error("parsers: tibia.com is under maintenance", "ErrMaintenance")

MaintenanceHost == "maintenance.tibia.com"

StatusOK == 200
StatusFound == 302
StatusForbidden == 403

----------------------------------------------------------------------------
(* What HTTPClient.Do gives back: a transport failure, or a response with  *)
(* a status code, the host of its Location header ("" when the header is   *)
(* absent or unparsable), a body, and whether the body can be read fully.  *)

TransportFailure ==
    [sent |-> FALSE, status |-> 0, location |-> "", body |-> 0,
     readOK |-> FALSE]
Response(status, location, body, readOK) ==
    [sent |-> TRUE, status |-> status, location |-> location,
     body |-> body, readOK |-> readOK]

Answers ==
    {TransportFailure}
      \cup {Response(StatusOK, "", b, TRUE) : b \in PageIds}
      \cup {Response(StatusOK, "", 1, FALSE)}
      \cup {Response(StatusForbidden, "", 0, TRUE)}
      \cup {Response(StatusFound, h, 0, TRUE) :
              h \in {MaintenanceHost, "www.tibia.com", ""}}
      \cup {Response(500, "", 0, TRUE)}

\* the origin as the concurrent callers meet it: it answers 200 with one of
\* the pages, or the connection fails
ConcAnswers ==
    {TransportFailure} \cup {Response(StatusOK, "", b, TRUE) : b \in PageIds}

\* deferred calls registered in the other order
DefersDrainFirst == <<"drain", "close">>

\* makeRequest: defer res.Body.Close(); defer io.Copy(io.Discard, res.Body),
\* in the order the defer statements are executed
Defers == <<"close", "drain">>

\* Go runs the deferred calls of a function last in, first out
RECURSIVE RunDeferred(_)
RunDeferred(ds) ==
    IF ds = <<>> THEN <<>>
    ELSE <<ds[Len(ds)]>> \o RunDeferred(SubSeq(ds, 1, Len(ds) - 1))

\* what makeRequest does to res.Body, in order, before it returns: nothing
\* when Do failed (it returns before the defer statements); io.Copy into
\* buf for status 200; then the deferred calls
bodyLog(res) ==
    IF ~res.sent THEN <<>>
    ELSE (IF res.status = StatusOK THEN <<"read">> ELSE <<>>)
           \o RunDeferred(Defers)

\* Parser.makeRequest from HTTPClient.Do on: the (data, err) it returns
classify(res) ==
    IF ~res.sent
    THEN [data |-> 0, err |-> Error("boostable bosses: failed to make req", "none")]
    ELSE IF res.status = StatusOK
    THEN IF res.readOK
         THEN [data |-> res.body, err |-> Nil]
         ELSE [data |-> 0,
               err |-> Error("boostable bosses: failed to read body", "none")]
    ELSE IF res.status = StatusForbidden
    THEN [data |-> 0,
          err |-> Error("boostable bosses: request forbidden by cip",
                        "ErrRateLimited")]
    ELSE IF res.status = StatusFound /\ res.location = ""
    THEN [data |-> 0,
          err |-> Error("boostable bosses: failed to get location from response",
                        "none")]
    ELSE IF res.status = StatusFound /\ res.location = MaintenanceHost
    THEN [data |-> 0, err |-> ErrMaintenance]
    ELSE [data |-> 0,
          err |-> Error("boostable bosses: code " \o ToString(res.status),
                        "ErrUnknownStatusCode")]

----------------------------------------------------------------------------
(* The server-save window *)

\* a time.Time in UTC at minute resolution: days since January 1 of year 0,
\* and the minute of that day
Time(d, m) == [day |-> d, minute |-> m]
Instant(t) == t.day * (24 * 60) + t.minute

\* time.Parse("15:04", "07:58") and time.Parse("15:04", "09:00"): the
\* elements the layout omits are zero, so both are on January 1 of year 0
tibiaServerSaveStartTime == Time(0, 7 * 60 + 58)
tibiaServerSaveEndTime == Time(0, 9 * 60)

After(t, u) == Instant(t) > Instant(u)
Before(t, u) == Instant(t) < Instant(u)

\* Parser.isServerSaveTime, for now = time.Now().UTC()
isServerSaveTime(now) ==
    After(now, tibiaServerSaveStartTime) /\ Before(now, tibiaServerSaveEndTime)

----------------------------------------------------------------------------
(* Bounds *)

\* concurrent callers of Parse
NumProcs == 2
\* largest retry budget opts.Retries tried
MaxRetries == 3
\* calendar days after January 1 of year 0 the clock is read on
MaxDay == 2

Procs == 1..NumProcs

\* the instants at which Parse calls read the clock: inside and outside the
\* server-save window of each day
CallInstants == {Time(d, m) : d \in 1..MaxDay, m \in {8 * 60 + 30, 12 * 60}}

\* every minute of every day
AllInstants == {Time(d, m) : d \in 1..MaxDay, m \in 0..(24 * 60 - 1)}

NoTime == Time(0, 0)

----------------------------------------------------------------------------
(* State *)

VARIABLES
    opts,          \* parsers.Options of the run: Retries and RateLimiter
    origin,        \* what HTTPClient.Do may give back in the run
    mu,            \* Parser.mu: [writer, readers]
    cachedBosses,  \* Parser.cachedBosses
    pc,            \* where each caller is in its Parse call
    call,          \* the locals of each caller's Parse call
    stored,        \* history: the values passed to store so far
    gateNow,       \* the clock isServerSaveTime reads (the gate on its own)
    gateOut,       \* what isServerSaveTime returned for gateNow
    page,          \* the text handed to parse (parse on its own)
    outcome,       \* what parse came to for that text
    backing,       \* the arrays behind the Bosses slices, in allocation order
    cacheSlice,    \* the array p.cachedBosses.Bosses points to (0: nil)
    held,          \* the array the Bosses slice each reader got points to
    codecIn,       \* the value handed to a JSON conversion
    codecOut       \* what the conversion gave

vars ==
    <<opts, origin, mu, cachedBosses, pc, call, stored, gateNow, gateOut,
      page, outcome, backing, cacheSlice, held, codecIn, codecOut>>

\* the locals of a Parse call that has not started
NoCall ==
    [disallow |-> FALSE,     \* opts.DisallowCachedResponses
     ctxDone |-> FALSE,      \* ctx.Done() is closed
     now |-> NoTime,         \* now of isServerSaveTime
     due |-> FALSE,          \* what isServerSaveTime returned
     i |-> 0,                \* fetch's loop counter
     data |-> 0,             \* data of fetch: the page read
     err |-> Nil,            \* err of fetch, then of Parse
     parsed |-> ZeroBosses,  \* parsed of parse, the argument of store
     result |-> ZeroBosses,  \* the value Parse returns
     \* history of the call
     fetches |-> 0,          \* calls of fetch
     ctxAtFetch |-> FALSE,   \* ctx was done when fetch was called
     tries |-> 0,            \* calls of makeRequest
     takes |-> 0,            \* RateLimiter.Take calls completed
     reqs |-> 0,             \* HTTPClient.Do calls completed
     stores |-> 0,           \* calls of store
     firstOK |-> 0,          \* the first makeRequest call that returned nil
     firstData |-> 0,        \* the data it returned
     firstMaint |-> 0,       \* the first Do answered by the maintenance host
     res |-> TransportFailure,  \* what the latest HTTPClient.Do gave back
     body |-> <<>>,          \* what was done to its body, in order
     lastErr |-> Nil,        \* err of the latest makeRequest call
     before |-> ZeroBosses,  \* Parser.cachedBosses when Parse was called
     ordered |-> FALSE,      \* the two fields below are kept for this call
     rcvdAfter |-> {},       \* the callers that had their page before this
     storedAfter |-> {}]     \* the callers that had stored before this

\* a write lock granted while readers hold the lock
LockIgnoresReaders(m) == ~m.writer

\* a write lock granted while another writer holds the lock
LockIgnoresWriter(m) == m.readers = 0

\* sync.RWMutex: Lock succeeds when no writer and no reader holds it
CanLock(m) == ~m.writer /\ m.readers = 0
\* a load that does not wait for the writer (no read lock taken)
RLockIgnoresWriter(m) == TRUE

\* a lock that is held from the start of a fetch to the end of its store
RLockAfterFetches(m) ==
    /\ ~m.writer
    /\ \A q \in Procs : pc[q] \notin {"loop", "take", "do", "parse", "lock"}

\* sync.RWMutex: RLock succeeds when no writer holds it
CanRLock(m) == ~m.writer

\* a fetch that loops opts.Retries times as given
BudgetAsGiven(retries) == retries

\* opts.Retries as fetch uses it: if opts.Retries == 0 { opts.Retries = 1 }
Budget(retries) == IF retries = 0 THEN 1 ELSE retries

\* a Parse that fetches on every call
MustFetchAlways(isDue, disallowCached) == TRUE

\* a Parse that ignores opts.DisallowCachedResponses
MustFetchGateOnly(isDue, disallowCached) == isDue

\* Parse and maybeUpdateCache: whether the call runs fetch
MustFetch(isDue, disallowCached) == isDue \/ disallowCached

\* a makeRequest that does not look at ctx
DoneIgnored(c) == FALSE

\* makeRequest: select { case <-ctx.Done(): ... default: }
Done(c) == c.ctxDone

\* a makeRequest that never waits for the limiter
NoAdmission(limiter) == "do"

\* makeRequest: if opts.RateLimiter != nil { opts.RateLimiter.Take() }
Admission(limiter) == IF limiter THEN "take" ELSE "do"

\* a loop without its break
NeverBreaks(e) == FALSE

\* fetch: whether the loop is left after makeRequest returned err
Breaks(e) == e = Nil

\* a parse that stores what it has before it returns the error
ReachesStoreOnError(r) == r.st # "panic"

\* parse: whether store is reached, given what the extraction came to
ReachesStore(r) == r.st = "ok"

\* most arrays allocated for Bosses lists
MaxArrays == 2

\* what the copy of the struct made by load holds for Bosses: the slice
\* header, pointing to the same array
LoadedSlice(slice) == slice

\* no slice is followed, no conversion is run
NoShare == backing = <<>> /\ cacheSlice = 0 /\ held = [r \in Procs |-> 0]
NoCodec == codecIn = <<>> /\ codecOut = <<>>

\* the state of a new Parser{}, for the options and the origin of the run
InitWith(optss, answers, instants) ==
    /\ opts \in optss
    /\ origin = answers
    /\ mu = [writer |-> FALSE, readers |-> 0]
    /\ cachedBosses = ZeroBosses
    /\ pc = [p \in Procs |-> "idle"]
    /\ call = [p \in Procs |-> NoCall]
    /\ stored = {}
    /\ gateNow \in instants
    /\ gateOut = [read |-> FALSE, due |-> FALSE]
    /\ page = NoPage
    /\ outcome = NotRun
    /\ NoShare /\ NoCodec

Init ==
    InitWith([Retries : 0..MaxRetries, RateLimiter : BOOLEAN], Answers,
             {NoTime})

unchangedGate == UNCHANGED <<gateNow, gateOut>>
unchangedExtract == UNCHANGED <<page, outcome>>
unchangedShare == UNCHANGED <<backing, cacheSlice, held>>
unchangedCodec == UNCHANGED <<codecIn, codecOut>>
unchangedAside == unchangedShare /\ unchangedCodec
unchangedRun == UNCHANGED <<opts, origin>>

\* A caller invokes Parse(ctx, args, opts) with a context that is done or
\* not (ctxs); isServerSaveTime reads the clock (instants).  The history
\* field before is kept when track says so, the fields rcvdAfter and
\* storedAfter when order says so.
CallTraced(p, ctxs, instants, track, order) ==
    /\ pc[p] = "idle"
    /\ \E d \in BOOLEAN, c \in ctxs, t \in instants :
         call' = [call EXCEPT ![p] =
                    [NoCall EXCEPT !.disallow = d, !.ctxDone = c, !.now = t,
                                   !.ordered = order,
                                   !.before = IF track THEN cachedBosses
                                              ELSE ZeroBosses]]
    /\ pc' = [pc EXCEPT ![p] = "gate"]
    /\ UNCHANGED <<mu, cachedBosses, stored>>
    /\ unchangedRun /\ unchangedGate /\ unchangedExtract
    /\ unchangedAside

CallWith(p, ctxs, instants, track) ==
    CallTraced(p, ctxs, instants, track, FALSE)

Call(p) == CallWith(p, BOOLEAN, CallInstants, TRUE)

\* maybeUpdateCache asks isServerSaveTime; Parse then runs fetch or load.
Gate(p) ==
    /\ pc[p] = "gate"
    /\ LET isDue == isServerSaveTime(call[p].now)
           goes == MustFetch(isDue, call[p].disallow)
       IN  /\ call' = [call EXCEPT ![p].due = isDue, ![p].now = NoTime,
                                   ![p].fetches = IF goes THEN 1 ELSE 0,
                                   ![p].ctxAtFetch = goes /\ call[p].ctxDone]
           /\ pc' = [pc EXCEPT ![p] = IF goes THEN "loop" ELSE "rlock"]
    /\ UNCHANGED <<mu, cachedBosses, stored>>
    /\ unchangedRun /\ unchangedGate /\ unchangedExtract
    /\ unchangedAside

\* a fetch that goes back to its loop when parse fails
RetryAfterParseError == "loop"

\* fetch: if err := p.parse(data); err != nil { return ... }
AfterParseError == "ret"

\* a Parse that returns what the cache holds next to its error
StaleResult(cached) == cached

\* Parse: return tibia.BoostableBosses{}, err
ErrorResult(cached) == ZeroBosses

\* where fetch goes once its loop is over
AfterLoop(e) == IF e # Nil THEN "ret" ELSE "parse"

\* fetch, the head of the loop: i < Retries, and makeRequest up to the
\* check of ctx.Done()
Loop(p) ==
    /\ pc[p] = "loop"
    /\ LET c == call[p] IN
       IF c.i < Budget(opts.Retries)
       THEN IF Done(c)
            THEN /\ call' = [call EXCEPT ![p].tries = c.tries + 1,
                                         ![p].err = ErrCtxDone,
                                         ![p].lastErr = ErrCtxDone,
                                         ![p].res = TransportFailure,
                                         ![p].body = <<>>,
                                         ![p].data = 0,
                                         ![p].i = c.i + 1]
                 /\ pc' = pc
            ELSE /\ call' = [call EXCEPT ![p].tries = c.tries + 1]
                 /\ pc' = [pc EXCEPT ![p] = Admission(opts.RateLimiter)]
       ELSE /\ call' = [call EXCEPT ![p].result =
                                IF c.err # Nil THEN ErrorResult(cachedBosses)
                                ELSE @]
            /\ pc' = [pc EXCEPT ![p] = AfterLoop(c.err)]
    /\ UNCHANGED <<mu, cachedBosses, stored>>
    /\ unchangedRun /\ unchangedGate /\ unchangedExtract
    /\ unchangedAside

\* makeRequest: opts.RateLimiter.Take() admits the caller
Take(p) ==
    /\ pc[p] = "take"
    /\ call' = [call EXCEPT ![p].takes = call[p].takes + 1]
    /\ pc' = [pc EXCEPT ![p] = "do"]
    /\ UNCHANGED <<mu, cachedBosses, stored>>
    /\ unchangedRun /\ unchangedGate /\ unchangedExtract
    /\ unchangedAside

\* makeRequest: HTTPClient.Do returns and the response is classified; then
\* fetch's "if err == nil { break }" and i++
Do(p) ==
    /\ pc[p] = "do"
    /\ \E res \in origin :
         LET c == call[p]
             got == classify(res)
             first == got.err = Nil /\ c.firstOK = 0
             maint == got.err = ErrMaintenance /\ c.firstMaint = 0
         IN  /\ call' = [call EXCEPT
                   ![p].reqs = c.reqs + 1,
                   ![p].data = got.data,
                   ![p].err = got.err,
                   ![p].lastErr = got.err,
                   ![p].res = res,
                   ![p].body = bodyLog(res),
                   ![p].firstMaint =
                       IF maint THEN c.reqs + 1 ELSE c.firstMaint,
                   ![p].firstOK = IF first THEN c.tries ELSE c.firstOK,
                   ![p].rcvdAfter =
                       IF first /\ c.ordered
                       THEN {q \in Procs \ {p} : call[q].firstOK > 0}
                       ELSE c.rcvdAfter,
                   ![p].firstData = IF first THEN got.data ELSE c.firstData,
                   ![p].i = IF Breaks(got.err) THEN c.i ELSE c.i + 1]
             /\ pc' = [pc EXCEPT ![p] =
                         IF Breaks(got.err) THEN AfterLoop(got.err)
                         ELSE "loop"]
    /\ UNCHANGED <<mu, cachedBosses, stored>>
    /\ unchangedRun /\ unchangedGate /\ unchangedExtract
    /\ unchangedAside

\* fetch calls parse(data): the extraction, up to the call of store; an
\* error of the extraction is what parse, fetch (wrapped) and Parse return
ParseBody(p) ==
    /\ pc[p] = "parse"
    /\ LET r == parsePage[call[p].data] IN
       IF r.st = "panic"
       THEN /\ call' = call
            /\ pc' = [pc EXCEPT ![p] = "panic"]
       ELSE /\ call' = [call EXCEPT
                  ![p].err =
                     IF r.st = "err"
                     THEN Error("boostable bosses: failed to parse body: "
                                  \o r.msg, "none")
                     ELSE Nil,
                  ![p].parsed = IF r.st = "ok" THEN r.val ELSE ZeroBosses,
                  ![p].result = IF r.st = "err"
                                THEN ErrorResult(cachedBosses) ELSE @]
            /\ pc' = [pc EXCEPT ![p] =
                        IF ReachesStore(r) THEN "lock" ELSE AfterParseError]
    /\ UNCHANGED <<mu, cachedBosses, stored>>
    /\ unchangedRun /\ unchangedGate /\ unchangedExtract
    /\ unchangedAside

\* a store that waits until the callers with older pages have stored
LockInFetchOrder(p, m) ==
    /\ CanLock(m)
    /\ \A q \in call[p].rcvdAfter : pc[q] \notin {"parse", "lock"}

\* store: p.mu.Lock() is all that stands between a caller and its store
MayLock(p, m) == CanLock(m)

\* store: p.mu.Lock()
StoreLock(p) ==
    /\ pc[p] = "lock"
    /\ MayLock(p, mu)
    /\ mu' = [mu EXCEPT !.writer = TRUE]
    /\ call' = [call EXCEPT
           ![p].stores = call[p].stores + 1,
           ![p].storedAfter =
               IF call[p].ordered
               THEN {q \in Procs \ {p} : call[q].stores > 0}
               ELSE {}]
    /\ stored' = stored \cup {call[p].parsed}
    /\ pc' = [pc EXCEPT ![p] = "wBoosted"]
    /\ UNCHANGED cachedBosses
    /\ unchangedRun /\ unchangedGate /\ unchangedExtract
    /\ unchangedAside

\* store: p.cachedBosses = bosses, the field Boosted
StoreBoosted(p) ==
    /\ pc[p] = "wBoosted"
    /\ cachedBosses' = [cachedBosses EXCEPT !.Boosted = call[p].parsed.Boosted]
    /\ pc' = [pc EXCEPT ![p] = "wBosses"]
    /\ UNCHANGED <<mu, call, stored>>
    /\ unchangedRun /\ unchangedGate /\ unchangedExtract
    /\ unchangedAside

\* store: p.cachedBosses = bosses, the field Bosses; then p.mu.Unlock();
\* parse and fetch return, and Parse goes on to load when fetch returned nil
StoreBosses(p) ==
    /\ pc[p] = "wBosses"
    /\ cachedBosses' = [cachedBosses EXCEPT !.Bosses = call[p].parsed.Bosses]
    /\ mu' = [mu EXCEPT !.writer = FALSE]
    /\ call' = [call EXCEPT ![p].data = 0, ![p].parsed = ZeroBosses]
    /\ pc' = [pc EXCEPT ![p] = IF call[p].err = Nil THEN "rlock" ELSE "ret"]
    /\ UNCHANGED stored
    /\ unchangedRun /\ unchangedGate /\ unchangedExtract
    /\ unchangedAside

\* load: p.mu.RLock()
LoadRLock(p) ==
    /\ pc[p] = "rlock"
    /\ CanRLock(mu)
    /\ mu' = [mu EXCEPT !.readers = mu.readers + 1]
    /\ pc' = [pc EXCEPT ![p] = "rBoosted"]
    /\ UNCHANGED <<cachedBosses, call, stored>>
    /\ unchangedRun /\ unchangedGate /\ unchangedExtract
    /\ unchangedAside

\* load: return p.cachedBosses, the field Boosted
LoadBoosted(p) ==
    /\ pc[p] = "rBoosted"
    /\ call' = [call EXCEPT ![p].result.Boosted = cachedBosses.Boosted]
    /\ pc' = [pc EXCEPT ![p] = "rBosses"]
    /\ UNCHANGED <<mu, cachedBosses, stored>>
    /\ unchangedRun /\ unchangedGate /\ unchangedExtract
    /\ unchangedAside

\* load: return p.cachedBosses, the field Bosses; then p.mu.RUnlock(), and
\* Parse returns (p.load(), nil)
LoadBosses(p) ==
    /\ pc[p] = "rBosses"
    /\ call' = [call EXCEPT ![p].result.Bosses = cachedBosses.Bosses]
    /\ mu' = [mu EXCEPT !.readers = mu.readers - 1]
    /\ pc' = [pc EXCEPT ![p] = "ret"]
    /\ UNCHANGED <<cachedBosses, stored>>
    /\ unchangedRun /\ unchangedGate /\ unchangedExtract
    /\ unchangedAside

\* The caller has the (Result, error) of its call and is free to call again.
Return(p) ==
    /\ pc[p] = "ret"
    /\ pc' = [pc EXCEPT ![p] = "idle"]
    /\ call' = [call EXCEPT ![p] = NoCall]
    /\ UNCHANGED <<mu, cachedBosses, stored>>
    /\ unchangedRun /\ unchangedGate /\ unchangedExtract
    /\ unchangedAside

\* The caller's context is cancelled while its call is running.
Cancel(p) ==
    /\ pc[p] \in {"gate", "loop", "take", "do", "parse", "lock"}
    /\ ~call[p].ctxDone
    /\ call' = [call EXCEPT ![p].ctxDone = TRUE]
    /\ UNCHANGED <<mu, cachedBosses, pc, stored>>
    /\ unchangedRun /\ unchangedGate /\ unchangedExtract
    /\ unchangedAside

Step(p) ==
    \/ Call(p) \/ Gate(p) \/ Loop(p) \/ Take(p) \/ Do(p) \/ ParseBody(p)
    \/ StoreLock(p) \/ StoreBoosted(p) \/ StoreBosses(p)
    \/ LoadRLock(p) \/ LoadBoosted(p) \/ LoadBosses(p)
    \/ Return(p) \/ Cancel(p)

\* One caller, every answer of the origin, every option.
Next == Step(1)

Spec == Init /\ [][Next]_vars

\* Concurrent callers: one attempt per fetch, no rate limiter, no
\* cancellation.
ConcInit ==
    InitWith([Retries : {1}, RateLimiter : {FALSE}], ConcAnswers,
             {NoTime})

ConcNext ==
    \E p \in Procs :
        \/ CallWith(p, {FALSE}, {Time(MaxDay, 8 * 60 + 30)}, FALSE)
        \/ Gate(p) \/ Loop(p) \/ Do(p) \/ ParseBody(p)
        \/ StoreLock(p) \/ StoreBoosted(p) \/ StoreBosses(p)
        \/ LoadRLock(p) \/ LoadBoosted(p) \/ LoadBosses(p)
        \/ Return(p)

SpecConc == ConcInit /\ [][ConcNext]_vars

\* Two concurrent callers and an origin that answers every request with
\* one of the two well-formed pages; the order in which the callers have
\* their pages and store is kept.
RaceProcs == {1, 2}

RaceAnswers ==
    {Response(StatusOK, "", b, TRUE) : b \in {b \in PageIds : parsePage[b].st = "ok"}}

RaceInit ==
    InitWith([Retries : {1}, RateLimiter : {FALSE}], RaceAnswers, {NoTime})

RaceNext ==
    \E p \in RaceProcs :
        \/ CallTraced(p, {FALSE}, {Time(MaxDay, 8 * 60 + 30)}, FALSE, TRUE)
        \/ Gate(p) \/ Loop(p) \/ Do(p) \/ ParseBody(p)
        \/ StoreLock(p) \/ StoreBoosted(p) \/ StoreBosses(p)
        \/ LoadRLock(p) \/ LoadBoosted(p) \/ LoadBosses(p)
        \/ Return(p)

SpecRace == RaceInit /\ [][RaceNext]_vars

\* Two concurrent callers behind a rate limiter: a caller stays at Take or
\* at Do for as long as the limiter or the network keeps it there.
WaitInit ==
    InitWith([Retries : {1}, RateLimiter : {TRUE}], RaceAnswers, {NoTime})

WaitNext ==
    \E p \in RaceProcs :
        \/ CallWith(p, {FALSE}, {Time(MaxDay, 8 * 60 + 30)}, FALSE)
        \/ Gate(p) \/ Loop(p) \/ Take(p) \/ Do(p) \/ ParseBody(p)
        \/ StoreLock(p) \/ StoreBoosted(p) \/ StoreBosses(p)
        \/ LoadRLock(p) \/ LoadBoosted(p) \/ LoadBosses(p)
        \/ Return(p)

SpecWait == WaitInit /\ [][WaitNext]_vars

\* The gate on its own: isServerSaveTime at every minute of every day.
GateInit ==
    InitWith([Retries : {1}, RateLimiter : {FALSE}], Answers, AllInstants)

ReadGate ==
    /\ ~gateOut.read
    /\ gateOut' = [read |-> TRUE, due |-> isServerSaveTime(gateNow)]
    /\ UNCHANGED <<opts, origin, mu, cachedBosses, pc, call, stored, gateNow>>
    /\ unchangedExtract /\ unchangedAside

SpecGate == GateInit /\ [][ReadGate]_vars

\* parse on its own: a Parser whose cache holds the Result of an earlier
\* fetch is handed one text.
ExtractInit ==
    /\ opts = [Retries |-> 1, RateLimiter |-> FALSE]
    /\ origin = Answers
    /\ mu = [writer |-> FALSE, readers |-> 0]
    /\ cachedBosses = PriorSnapshot
    /\ pc = [p \in Procs |-> "idle"]
    /\ call = [p \in Procs |-> NoCall]
    /\ stored = {PriorSnapshot}
    /\ gateNow = NoTime
    /\ gateOut = [read |-> FALSE, due |-> FALSE]
    /\ page \in PageDescs
    /\ outcome = NotRun
    /\ NoShare /\ NoCodec

\* parse(data) from its first line to its return, store included
Extract ==
    /\ outcome = NotRun
    /\ LET r == parse(Render(page))
       IN  /\ outcome' = r
           /\ IF ReachesStore(r)
              THEN /\ cachedBosses' = r.val
                   /\ stored' = stored \cup {r.val}
              ELSE UNCHANGED <<cachedBosses, stored>>
    /\ UNCHANGED <<mu, pc, call, page>>
    /\ unchangedRun /\ unchangedGate /\ unchangedAside

SpecExtract == ExtractInit /\ [][Extract]_vars

\* readTodaysLine and readBossesLine on their own: one line made of at most
\* MaxSegs pieces of the page's markup, in any order.
MaxSegs == 5

TodaySegs ==
    {todayBossIndexer \o <<"Utua">>,
     endTodayBossIndexer,
     todayBossImgIndexer \o <<"Utua.gif">>,
     <<Quote, " alt=", Quote>>,
     endTodayBossImgIndexer}

BossesSegs ==
    {<<"<img src=", Quote>> \o bossesImgIndexer \o <<FileOf(n), Quote, " ">> :
        n \in {<<"Utua">>, <<"Gnomevil">>}}
    \cup {bossesNameIndexer \o n \o endBossesNameIndexer :
             n \in {<<"Utua">>, <<"Gnomevil">>, <<>>}}

RECURSIVE Concat(_)
Concat(segs) ==
    IF segs = <<>> THEN <<>> ELSE Head(segs) \o Concat(Tail(segs))

LinesOf(segs) ==
    {Concat(ss) : ss \in UNION {[1..n -> segs] : n \in 0..MaxSegs}}

\* the line handed to the function, what is left of it for the loop, and the
\* bosses appended so far
LineState(kind, line) ==
    [kind |-> kind, text |-> line, rest |-> line, bosses |-> <<>>]

LineBoosted == BoostableBoss(<<"Utua">>, <<>>, TRUE)

LineInit ==
    /\ opts = [Retries |-> 1, RateLimiter |-> FALSE]
    /\ origin = Answers
    /\ mu = [writer |-> FALSE, readers |-> 0]
    /\ cachedBosses = PriorSnapshot
    /\ pc = [p \in Procs |-> "idle"]
    /\ call = [p \in Procs |-> NoCall]
    /\ stored = {PriorSnapshot}
    /\ gateNow = NoTime
    /\ gateOut = [read |-> FALSE, due |-> FALSE]
    /\ page \in {LineState("today", l) : l \in LinesOf(TodaySegs)}
                \cup {LineState("bosses", l) : l \in LinesOf(BossesSegs)}
    /\ outcome = NotRun
    /\ NoShare /\ NoCodec

\* readTodaysLine(line)
ReadTodays ==
    /\ page.kind = "today" /\ outcome = NotRun
    /\ outcome' = readTodaysLine(page.text)
    /\ UNCHANGED <<mu, pc, call, page, cachedBosses, stored>>
    /\ unchangedRun /\ unchangedGate /\ unchangedAside

\* readBossesLine(line, boosted): the loop condition and one run of the body
ReadBossesIter ==
    /\ page.kind = "bosses" /\ outcome = NotRun
    /\ LET it == readBossesIter(page.rest, LineBoosted)
       IN  CASE it.st = "end" ->
                  outcome' = Ok(page.bosses) /\ UNCHANGED page
             [] it.st = "out" ->
                  outcome' = it.out /\ UNCHANGED page
             [] it.st = "on" ->
                  /\ page' = [page EXCEPT !.rest = it.rest,
                                          !.bosses = Append(@, it.boss)]
                  /\ UNCHANGED outcome
    /\ UNCHANGED <<mu, pc, call, cachedBosses, stored>>
    /\ unchangedRun /\ unchangedGate /\ unchangedAside

LineNext == ReadTodays \/ ReadBossesIter

SpecLine == LineInit /\ [][LineNext]_vars

\* The Bosses slice and its array: tibia.BoostableBosses holds Bosses as a
\* slice, so copying the struct copies the slice header, not the array.
\* Readers load the cache and change elements of the list they got; fetches
\* store new Results.
unchangedParser ==
    UNCHANGED <<opts, origin, mu, cachedBosses, pc, call, stored, gateNow,
                gateOut, page, outcome, codecIn, codecOut>>

ShareInit ==
    /\ opts = [Retries |-> 1, RateLimiter |-> FALSE]
    /\ origin = Answers
    /\ mu = [writer |-> FALSE, readers |-> 0]
    /\ cachedBosses = PriorSnapshot
    /\ pc = [p \in Procs |-> "idle"]
    /\ call = [p \in Procs |-> NoCall]
    /\ stored = {PriorSnapshot}
    /\ gateNow = NoTime
    /\ gateOut = [read |-> FALSE, due |-> FALSE]
    /\ page = NoPage
    /\ outcome = NotRun
    /\ backing = <<PriorSnapshot.Bosses>>
    /\ cacheSlice = 1
    /\ held = [r \in Procs |-> 0]
    /\ NoCodec

\* readBossesLine makes a new array for the list of a page and store
\* assigns the struct that holds the slice
StoreNew ==
    /\ Len(backing) < MaxArrays
    /\ \E b \in PageIds :
         /\ parsePage[b].st = "ok"
         /\ backing' = Append(backing, parsePage[b].val.Bosses)
    /\ cacheSlice' = Len(backing) + 1
    /\ UNCHANGED held
    /\ unchangedParser

\* load: return p.cachedBosses, a copy of the struct
LoadSlice(r) ==
    /\ held' = [held EXCEPT ![r] = LoadedSlice(cacheSlice)]
    /\ UNCHANGED <<backing, cacheSlice>>
    /\ unchangedParser

\* a reader changes an element of the list it was handed
Mutate(r) ==
    /\ held[r] # 0
    /\ \E i \in DOMAIN backing[held[r]] :
         /\ backing[held[r]][i] # ZeroBoss
         /\ backing' = [backing EXCEPT ![held[r]][i] = ZeroBoss]
    /\ UNCHANGED <<cacheSlice, held>>
    /\ unchangedParser

ShareNext == StoreNew \/ \E r \in Procs : LoadSlice(r) \/ Mutate(r)

SpecShare == ShareInit /\ [][ShareNext]_vars

-----------------------------------------------------------------------------
(* The public JSON shape of tibia.BoostableBosses: encoding/json driven by *)
(* the struct tags.  A string is a sequence of runes or bytes; a document  *)
(* is a tree of objects (members in field order), arrays, strings,         *)
(* booleans and null.                                                      *)

MaxList == 2

\* a byte that is not valid UTF-8 (a Latin-1 e-acute), and U+FFFD
BadByte == "0xE9"
ReplacementRune == "U+FFFD"

\* the key of a struct field
Tag(field) ==
    CASE field = "Name" -> "name"
      [] field = "ImageURL" -> "image_url"
      [] field = "IsBoosted" -> "featured"
      [] field = "Boosted" -> "boosted"
      [] field = "Bosses" -> "boostable_boss_list"

\* json.Marshal writes a string escaped: the quote and the backslash with a
\* backslash, the HTML characters as \u00XX, an invalid byte as
\* the escape of U+FFFD
encodeRune(c) ==
    CASE c = "\"" -> "\\\""
      [] c = "\\" -> "\\\\"
      [] c = "<" -> "\\u003c"
      [] c = ">" -> "\\u003e"
      [] c = "&" -> "\\u0026"
      [] c = BadByte -> "\\ufffd"
      [] OTHER -> c

\* json.Unmarshal reads the escapes back
decodeRune(e) ==
    CASE e = "\\\"" -> "\""
      [] e = "\\\\" -> "\\"
      [] e = "\\u003c" -> "<"
      [] e = "\\u003e" -> ">"
      [] e = "\\u0026" -> "&"
      [] e = "\\ufffd" -> ReplacementRune
      [] OTHER -> e

encodeString(s) == [i \in DOMAIN s |-> encodeRune(s[i])]
decodeString(s) == [i \in DOMAIN s |-> decodeRune(s[i])]

JNull == [t |-> "null"]
JString(s) == [t |-> "string", s |-> encodeString(s)]
JBool(b) == [t |-> "bool", b |-> b]
JArray(items) == [t |-> "array", items |-> items]
JObject(members) == [t |-> "object", members |-> members]
JMember(field, value) == [key |-> Tag(field), value |-> value]

marshalBoss(b) ==
    JObject(<<JMember("Name", JString(b.Name)),
              JMember("ImageURL", JString(b.ImageURL)),
              JMember("IsBoosted", JBool(b.IsBoosted))>>)

\* v is a tibia.BoostableBosses and isNil tells a nil Bosses slice, written
\* null, from an empty one, written []
marshalBosses(v, isNil) ==
    JObject(<<JMember("Boosted", marshalBoss(v.Boosted)),
              JMember("Bosses",
                      IF isNil THEN JNull
                      ELSE JArray([i \in DOMAIN v.Bosses |->
                                      marshalBoss(v.Bosses[i])]))>>)

\* the value of the member of an object that has the key of a field; the
\* last one when the key is repeated, null when there is none
MemberOf(obj, field) ==
    LET at == {i \in DOMAIN obj.members : obj.members[i].key = Tag(field)}
    IN  IF at = {} THEN JNull
        ELSE obj.members[CHOOSE i \in at : \A j \in at : j <= i].value

\* json.Unmarshal into a zero value: a member that is absent or null leaves
\* the field as it was
unmarshalStringField(obj, field) ==
    LET j == MemberOf(obj, field)
    IN  IF j.t = "string" THEN decodeString(j.s) ELSE <<>>

unmarshalBoolField(obj, field) ==
    LET j == MemberOf(obj, field)
    IN  IF j.t = "bool" THEN j.b ELSE FALSE

unmarshalBoss(j) ==
    IF j.t = "object"
    THEN BoostableBoss(unmarshalStringField(j, "Name"),
                       unmarshalStringField(j, "ImageURL"),
                       unmarshalBoolField(j, "IsBoosted"))
    ELSE ZeroBoss

unmarshalBosses(doc) ==
    LET list == MemberOf(doc, "Bosses")
    IN  [val |-> [Boosted |-> unmarshalBoss(MemberOf(doc, "Boosted")),
                  Bosses |-> IF list.t = "array"
                             THEN [i \in DOMAIN list.items |->
                                      unmarshalBoss(list.items[i])]
                             ELSE <<>>],
         isNil |-> list.t # "array"]

\* the strings of the values converted: a name as the parser cuts it from a
\* page, names with characters that JSON escapes, and a name cut from a page
\* sent in Latin-1
CodecNames ==
    {<<"Utua">>, <<"\"", "Gnomevil", "\\">>, <<"<", "&", ">">>,
     <<"Gr", BadByte, "b">>}

CodecBossValues ==
    {BoostableBoss(n, bossesImgIndexer \o <<FileOf(n)>>, f) :
        n \in CodecNames, f \in BOOLEAN}

CodecLists ==
    UNION {[1..n -> CodecBossValues] : n \in 0..MaxList}

CodecInputs ==
    {[val |-> [Boosted |-> b, Bosses |-> l], isNil |-> nl] :
        b \in CodecBossValues,
        l \in CodecLists,
        nl \in BOOLEAN}

NoDoc == [st |-> "none", doc |-> JNull, val |-> ZeroBosses, isNil |-> TRUE]

unchangedByCodec ==
    /\ UNCHANGED <<opts, origin, mu, cachedBosses, pc, call, stored, gateNow,
                   gateOut, page, outcome>>
    /\ unchangedShare

JSONInit ==
    /\ opts = [Retries |-> 1, RateLimiter |-> FALSE]
    /\ origin = Answers
    /\ mu = [writer |-> FALSE, readers |-> 0]
    /\ cachedBosses = PriorSnapshot
    /\ pc = [p \in Procs |-> "idle"]
    /\ call = [p \in Procs |-> NoCall]
    /\ stored = {PriorSnapshot}
    /\ gateNow = NoTime
    /\ gateOut = [read |-> FALSE, due |-> FALSE]
    /\ page = NoPage
    /\ outcome = NotRun
    /\ NoShare
    /\ codecIn \in {c \in CodecInputs : c.isNil => c.val.Bosses = <<>>}
                   \cup {[val |-> parsePage[b].val, isNil |-> FALSE] :
                            b \in {b \in PageIds : parsePage[b].st = "ok"}}
    /\ codecOut = NoDoc

\* json.Marshal(result)
Marshal ==
    /\ codecOut.st = "none"
    /\ codecOut' = [NoDoc EXCEPT !.st = "json",
                                 !.doc = marshalBosses(codecIn.val, codecIn.isNil)]
    /\ UNCHANGED codecIn
    /\ unchangedByCodec

\* json.Unmarshal(data, &result) into a zero value
Unmarshal ==
    /\ codecOut.st = "json"
    /\ LET back == unmarshalBosses(codecOut.doc)
       IN  codecOut' = [codecOut EXCEPT !.st = "value",
                                        !.val = back.val,
                                        !.isNil = back.isNil]
    /\ UNCHANGED codecIn
    /\ unchangedByCodec

JSONNext == Marshal \/ Unmarshal

SpecJSON == JSONInit /\ [][JSONNext]_vars

-----------------------------------------------------------------------------
(* The JSON codecs of tibia.Vocation, tibia.PvPType and                    *)
(* tibia.HighscoreCategory.  A string is the sequence of its characters.   *)

UpperLetters ==
    <<"A", "B", "C", "D", "E", "F", "G", "H", "I", "J", "K", "L", "M", "N",
      "O", "P", "Q", "R", "S", "T", "U", "V", "W", "X", "Y", "Z">>

LowerLetters ==
    <<"a", "b", "c", "d", "e", "f", "g", "h", "i", "j", "k", "l", "m", "n",
      "o", "p", "q", "r", "s", "t", "u", "v", "w", "x", "y", "z">>

Digits == <<"0", "1", "2", "3", "4", "5", "6", "7", "8", "9">>

IndexIn(seq, c) == CHOOSE i \in DOMAIN seq : seq[i] = c
IsIn(seq, c) == \E i \in DOMAIN seq : seq[i] = c

\* strings.ToLower left out
KeepCase(s) == s

\* strings.ToLower and strings.ToUpper
ToLower(s) ==
    [i \in DOMAIN s |->
        IF IsIn(UpperLetters, s[i]) THEN LowerLetters[IndexIn(UpperLetters, s[i])]
        ELSE s[i]]

ToUpper(s) ==
    [i \in DOMAIN s |->
        IF IsIn(LowerLetters, s[i]) THEN UpperLetters[IndexIn(LowerLetters, s[i])]
        ELSE s[i]]

\* strconv.Itoa of a small natural number
Itoa(n) ==
    IF n < 10 THEN <<Digits[n + 1]>>
    ELSE <<Digits[(n \div 10) + 1], Digits[(n % 10) + 1]>>

\* the number a sequence of digits writes
RECURSIVE Atoi(_)
Atoi(ds) ==
    IF ds = <<>> THEN 0
    ELSE 10 * Atoi(SubSeq(ds, 1, Len(ds) - 1)) + (IndexIn(Digits, ds[Len(ds)]) - 1)

\* a value of one of the three types: the struct with its int field
Vocation(n) == [type |-> "Vocation", id |-> n]
PvPType(n) == [type |-> "PvPType", id |-> n]
HighscoreCategory(n) == [type |-> "HighscoreCategory", id |-> n]

VocationAll == Vocation(0)
HighscoreCategoryDefault == HighscoreCategory(0)

\* the values the packages define
VocationValues == {Vocation(n) : n \in 0..9}
PvPTypeValues == {PvPType(n) : n \in 0..4}
HighscoreCategoryValues == {HighscoreCategory(n) : n \in 0..15}
EnumValues == VocationValues \cup PvPTypeValues \cup HighscoreCategoryValues

ErrUnknownVocation == [msg |-> "unknown vocation", wraps |-> "nil"]
ErrUnknownPvPType == [msg |-> "unknown pvp type", wraps |-> "nil"]
ErrUnknownHighscoreCategory ==
    [msg |-> "unknown highscore category", wraps |-> "nil"]

\* the cases of the switch of VocationFromString
VocationCases ==
    <<[names |->
        {<<"a", "l", "l">>, <<"0">>},
       id |-> 0],
      [names |->
        {<<"n", "o", "n", "e">>, <<"1">>},
       id |-> 1],
      [names |->
        {<<"k", "n", "i", "g", "h", "t">>,
          <<"k", "n", "i", "g", "h", "t", "s">>, <<"2">>},
       id |-> 2],
      [names |->
        {<<"p", "a", "l", "a", "d", "i", "n">>,
          <<"p", "a", "l", "a", "d", "i", "n", "s">>, <<"3">>},
       id |-> 3],
      [names |->
        {<<"s", "o", "r", "c", "e", "r", "e", "r">>,
          <<"s", "o", "r", "c", "e", "r", "e", "r", "s">>, <<"4">>},
       id |-> 4],
      [names |->
        {<<"d", "r", "u", "i", "d">>, <<"d", "r", "u", "i", "d", "s">>,
          <<"5">>},
       id |-> 5],
      [names |->
        {<<"e", "l", "i", "t", "e", " ", "k", "n", "i", "g", "h", "t">>,
          <<"e", "l", "i", "t", "e", " ", "k", "n", "i", "g", "h", "t", "s">>,
          <<"6">>},
       id |-> 6],
      [names |->
        {<<"r", "o", "y", "a", "l", " ", "p", "a", "l", "a", "d", "i", "n">>,
          <<"r", "o", "y", "a", "l", " ", "p", "a", "l", "a", "d", "i", "n", "s">>,
          <<"7">>},
       id |-> 7],
      [names |->
        {<<"m", "a", "s", "t", "e", "r", " ", "s", "o", "r", "c", "e", "r", "e", "r">>,
          <<"m", "a", "s", "t", "e", "r", " ", "s", "o", "r", "c", "e", "r", "e", "r", "s">>,
          <<"8">>},
       id |-> 8],
      [names |->
        {<<"e", "l", "d", "e", "r", " ", "d", "r", "u", "i", "d">>,
          <<"e", "l", "d", "e", "r", " ", "d", "r", "u", "i", "d", "s">>,
          <<"9">>},
       id |-> 9]>>

\* the cases of the switch of PvPTypeFromString
PvPTypeCases ==
    <<[names |->
        {<<"o", "p", "e", "n">>, <<"o", "p", "e", "n", "p", "v", "p">>,
          <<"o", "p", "e", "n", " ", "p", "v", "p">>, <<"0">>},
       id |-> 0],
      [names |->
        {<<"o", "p", "t", "i", "o", "n", "a", "l">>,
          <<"o", "p", "t", "i", "o", "n", "a", "l", "p", "v", "p">>,
          <<"o", "p", "t", "i", "o", "n", "a", "l", " ", "p", "v", "p">>,
          <<"1">>},
       id |-> 1],
      [names |->
        {<<"h", "a", "r", "d", "c", "o", "r", "e">>,
          <<"h", "a", "r", "d", "c", "o", "r", "e", "p", "v", "p">>,
          <<"h", "a", "r", "d", "c", "o", "r", "e", " ", "p", "v", "p">>,
          <<"2">>},
       id |-> 2],
      [names |->
        {<<"r", "e", "t", "r", "o", " ", "o", "p", "e", "n">>,
          <<"r", "e", "t", "r", "o", "o", "p", "e", "n">>,
          <<"r", "e", "t", "r", "o", " ", "o", "p", "e", "n", " ", "p", "v", "p">>,
          <<"r", "e", "t", "r", "o", "o", "p", "e", "n", "p", "v", "p">>,
          <<"3">>},
       id |-> 3],
      [names |->
        {<<"r", "e", "t", "r", "o", " ", "h", "a", "r", "d", "c", "o", "r", "e">>,
          <<"r", "e", "t", "r", "o", "h", "a", "r", "d", "c", "o", "r", "e">>,
          <<"r", "e", "t", "r", "o", " ", "h", "a", "r", "d", "c", "o", "r", "e", " ", "p", "v", "p">>,
          <<"r", "e", "t", "r", "o", "h", "a", "r", "d", "c", "o", "r", "e", "p", "v", "p">>,
          <<"4">>},
       id |-> 4]>>

\* the cases of the switch of HighscoreCategoryFromString
HighscoreCategoryCases ==
    <<[names |->
        {<<"a", "c", "h", "i", "e", "v", "e", "m", "e", "n", "t">>,
          <<"a", "c", "h", "i", "e", "v", "e", "m", "e", "n", "t", "s">>,
          <<"1">>},
       id |-> 1],
      [names |->
        {<<"a", "x", "e">>,
          <<"a", "x", "e", " ", "f", "i", "g", "h", "t", "i", "n", "g">>,
          <<"a", "x", "e", "f", "i", "g", "h", "t", "i", "n", "g">>, <<"2">>},
       id |-> 2],
      [names |->
        {<<"c", "h", "a", "r", "m", " ", "p", "o", "i", "n", "t", "s">>,
          <<"c", "h", "a", "r", "m">>,
          <<"c", "h", "a", "r", "m", "p", "o", "i", "n", "t", "s">>, <<"3">>},
       id |-> 3],
      [names |->
        {<<"c", "l", "u", "b", " ", "f", "i", "g", "h", "t", "i", "n", "g">>,
          <<"c", "l", "u", "b">>,
          <<"c", "l", "u", "b", "f", "i", "g", "h", "t", "i", "n", "g">>,
          <<"4">>},
       id |-> 4],
      [names |->
        {<<"d", "i", "s", "t", "a", "n", "c", "e", " ", "f", "i", "g", "h", "t", "i", "n", "g">>,
          <<"d", "i", "s", "t", "a", "n", "c", "e">>,
          <<"d", "i", "s", "t", "a", "n", "c", "e", "f", "i", "g", "h", "t", "i", "n", "g">>,
          <<"5">>},
       id |-> 5],
      [names |->
        {<<"e", "x", "p", "e", "r", "i", "e", "n", "c", "e", " ", "p", "o", "i", "n", "t", "s">>,
          <<"e", "x", "p">>, <<"x", "p">>,
          <<"e", "x", "p", "e", "r", "i", "e", "n", "c", "e">>,
          <<"e", "x", "p", "e", "r", "i", "e", "n", "c", "e", "p", "o", "i", "n", "t", "s">>,
          <<"l", "e", "v", "e", "l">>, <<"6">>},
       id |-> 6],
      [names |->
        {<<"f", "i", "s", "h", "i", "n", "g">>, <<"7">>},
       id |-> 7],
      [names |->
        {<<"f", "i", "s", "t", " ", "f", "i", "g", "h", "t", "i", "n", "g">>,
          <<"f", "i", "s", "t">>,
          <<"f", "i", "s", "t", "f", "i", "g", "h", "t", "i", "n", "g">>,
          <<"8">>},
       id |-> 8],
      [names |->
        {<<"g", "o", "s", "h", "n", "a", "r", "s", " ", "t", "a", "i", "n", "t">>,
          <<"t", "a", "i", "n", "t">>,
          <<"g", "o", "s", "h", "n", "a", "r", "'", "s", " ", "t", "a", "i", "n", "t">>,
          <<"g", "o", "s", "h", "n", "a", "r", "s">>,
          <<"g", "o", "s", "h", "n", "a", "r", "s", "t", "a", "i", "n", "t">>,
          <<"9">>},
       id |-> 9],
      [names |->
        {<<"l", "o", "y", "a", "l", "t", "y", " ", "p", "o", "i", "n", "t", "s">>,
          <<"l", "o", "y", "a", "l", "t", "y">>,
          <<"l", "o", "y", "a", "l", "t", "y", "p", "o", "i", "n", "t", "s">>,
          <<"1", "0">>},
       id |-> 10],
      [names |->
        {<<"m", "a", "g", "i", "c", " ", "l", "e", "v", "e", "l">>,
          <<"m", "a", "g", "i", "c">>, <<"m", "l">>,
          <<"m", "a", "g", "i", "c", "l", "e", "v", "e", "l">>, <<"1", "1">>},
       id |-> 11],
      [names |->
        {<<"s", "h", "i", "e", "l", "d", "i", "n", "g">>, <<"1", "2">>},
       id |-> 12],
      [names |->
        {<<"s", "w", "o", "r", "d", " ", "f", "i", "g", "h", "t", "i", "n", "g">>,
          <<"s", "w", "o", "r", "d">>,
          <<"s", "w", "o", "r", "d", "f", "i", "g", "h", "t", "i", "n", "g">>,
          <<"1", "3">>},
       id |-> 13],
      [names |->
        {<<"d", "r", "o", "m", "e", " ", "s", "c", "o", "r", "e">>,
          <<"d", "r", "o", "m", "e">>,
          <<"d", "r", "o", "m", "e", "s", "c", "o", "r", "e">>, <<"1", "4">>},
       id |-> 14],
      [names |->
        {<<"b", "o", "s", "s", " ", "p", "o", "i", "n", "t", "s">>,
          <<"b", "o", "s", "s", "p", "o", "i", "n", "t", "s">>, <<"1", "5">>},
       id |-> 15]>>

\* Vocation.String, by id
VocationNames ==
    <<<<"A", "l", "l">>,
      <<"N", "o", "n", "e">>,
      <<"K", "n", "i", "g", "h", "t">>,
      <<"P", "a", "l", "a", "d", "i", "n">>,
      <<"S", "o", "r", "c", "e", "r", "e", "r">>,
      <<"D", "r", "u", "i", "d">>,
      <<"E", "l", "i", "t", "e", " ", "K", "n", "i", "g", "h", "t">>,
      <<"R", "o", "y", "a", "l", " ", "P", "a", "l", "a", "d", "i", "n">>,
      <<"M", "a", "s", "t", "e", "r", " ", "S", "o", "r", "c", "e", "r", "e", "r">>,
      <<"E", "l", "d", "e", "r", " ", "D", "r", "u", "i", "d">>>>

\* PvPType.String, by id
PvPTypeNames ==
    <<<<"O", "p", "e", "n", " ", "P", "v", "P">>,
      <<"O", "p", "t", "i", "o", "n", "a", "l", " ", "P", "v", "P">>,
      <<"H", "a", "r", "d", "c", "o", "r", "e", " ", "P", "v", "P">>,
      <<"R", "e", "t", "r", "o", " ", "O", "p", "e", "n", " ", "P", "v", "P">>,
      <<"R", "e", "t", "r", "o", " ", "H", "a", "r", "d", "c", "o", "r", "e", " ", "P", "v", "P">>>>

\* HighscoreCategory.String, by id, HighscoreCategoryDefault first
HighscoreCategoryNames ==
    <<<<"E", "x", "p", "e", "r", "i", "e", "n", "c", "e", " ", "P", "o", "i", "n", "t", "s">>,
      <<"A", "c", "h", "i", "e", "v", "e", "m", "e", "n", "t", "s">>,
      <<"A", "x", "e", " ", "F", "i", "g", "h", "t", "i", "n", "g">>,
      <<"C", "h", "a", "r", "m", " ", "P", "o", "i", "n", "t", "s">>,
      <<"C", "l", "u", "b", " ", "F", "i", "g", "h", "t", "i", "n", "g">>,
      <<"D", "i", "s", "t", "a", "n", "c", "e", " ", "F", "i", "g", "h", "t", "i", "n", "g">>,
      <<"E", "x", "p", "e", "r", "i", "e", "n", "c", "e", " ", "P", "o", "i", "n", "t", "s">>,
      <<"F", "i", "s", "h", "i", "n", "g">>,
      <<"F", "i", "s", "t", " ", "F", "i", "g", "h", "t", "i", "n", "g">>,
      <<"G", "o", "s", "h", "n", "a", "r", "'", "s", " ", "T", "a", "i", "n", "t">>,
      <<"L", "o", "y", "a", "l", "t", "y", " ", "P", "o", "i", "n", "t", "s">>,
      <<"M", "a", "g", "i", "c", " ", "L", "e", "v", "e", "l">>,
      <<"S", "h", "i", "e", "l", "d", "i", "n", "g">>,
      <<"S", "w", "o", "r", "d", " ", "F", "i", "g", "h", "t", "i", "n", "g">>,
      <<"D", "r", "o", "m", "e", " ", "S", "c", "o", "r", "e">>,
      <<"B", "o", "s", "s", " ", "P", "o", "i", "n", "t", "s">>>>

\* the cases of a switch that have the key
Switch(cases, key) == {i \in DOMAIN cases : key \in cases[i].names}

VocationFromString(vocation) ==
    LET hit == Switch(VocationCases, ToLower(vocation))
    IN  IF hit = {} THEN [val |-> VocationAll, err |-> ErrUnknownVocation]
        ELSE [val |-> Vocation(VocationCases[CHOOSE i \in hit : TRUE].id),
              err |-> Nil]

PvPTypeFromString(be) ==
    LET hit == Switch(PvPTypeCases, ToLower(be))
    IN  IF hit = {} THEN [val |-> PvPType(0), err |-> ErrUnknownPvPType]
        ELSE [val |-> PvPType(PvPTypeCases[CHOOSE i \in hit : TRUE].id),
              err |-> Nil]

HighscoreCategoryFromString(category) ==
    LET hit == Switch(HighscoreCategoryCases, ToLower(category))
    IN  IF hit = {}
        THEN [val |-> HighscoreCategoryDefault,
              err |-> ErrUnknownHighscoreCategory]
        ELSE [val |-> HighscoreCategory(
                          HighscoreCategoryCases[CHOOSE i \in hit : TRUE].id),
              err |-> Nil]

VocationFromInt(vocation) ==
    IF vocation \in 0..9 THEN [val |-> Vocation(vocation), err |-> Nil]
    ELSE [val |-> VocationAll, err |-> ErrUnknownVocation]

PvPTypeFromInt(be) ==
    IF be \in 0..4 THEN [val |-> PvPType(be), err |-> Nil]
    ELSE [val |-> PvPType(0), err |-> ErrUnknownPvPType]

HighscoreCategoryFromInt(category) ==
    IF category \in 1..15
    THEN [val |-> HighscoreCategory(category), err |-> Nil]
    ELSE [val |-> HighscoreCategoryDefault,
          err |-> ErrUnknownHighscoreCategory]

FromString(type, data) ==
    CASE type = "Vocation" -> VocationFromString(data)
      [] type = "PvPType" -> PvPTypeFromString(data)
      [] type = "HighscoreCategory" -> HighscoreCategoryFromString(data)

FromInt(type, data) ==
    CASE type = "Vocation" -> VocationFromInt(data)
      [] type = "PvPType" -> PvPTypeFromInt(data)
      [] type = "HighscoreCategory" -> HighscoreCategoryFromInt(data)

\* String() of a defined value
String(v) ==
    CASE v.type = "Vocation" -> VocationNames[v.id + 1]
      [] v.type = "PvPType" -> PvPTypeNames[v.id + 1]
      [] v.type = "HighscoreCategory" -> HighscoreCategoryNames[v.id + 1]

\* MarshalJSON: the name between quotes
MarshalJSON(v) == <<Quote>> \o String(v) \o <<Quote>>

\* json.Unmarshal(b, &zero) with zero of type any: a string without its
\* quotes, a number as float64, a bool, nil for null, or an error
UnmarshalAny(b) ==
    IF /\ Len(b) >= 2 /\ b[1] = Quote /\ b[Len(b)] = Quote
       /\ \A i \in 2..(Len(b) - 1) : b[i] \notin {Quote, "\\"}
    THEN [t |-> "string", s |-> SubSeq(b, 2, Len(b) - 1), n |-> 0]
    ELSE IF /\ b # <<>> /\ \A i \in DOMAIN b : IsIn(Digits, b[i])
            /\ (Len(b) = 1 \/ b[1] # "0")
         THEN [t |-> "float64", s |-> <<>>, n |-> Atoi(b)]
         ELSE IF b \in {<<"t", "r", "u", "e">>, <<"f", "a", "l", "s", "e">>}
         THEN [t |-> "bool", s |-> <<>>, n |-> 0]
         ELSE IF b = <<"n", "u", "l", "l">>
         THEN [t |-> "nil", s |-> <<>>, n |-> 0]
         ELSE [t |-> "error", s |-> <<>>, n |-> 0]

\* fmt.Errorf("... unmarshal: %w", err)
UnmarshalError(err) ==
    [msg |-> "unmarshal: " \o err.msg, wraps |-> err.msg]

\* the receiver after the call, and the error returned
unmarshalFromString(recv, data) ==
    IF data = <<>> THEN [val |-> recv, err |-> Nil]
    ELSE LET r == FromString(recv.type, data)
         IN  IF r.err # Nil
             THEN [val |-> recv, err |-> UnmarshalError(r.err)]
             ELSE [val |-> r.val, err |-> Nil]

\* an unmarshalFromInt that assigns before it looks at the error
unmarshalFromIntAssignsFirst(recv, data) ==
    LET r == FromInt(recv.type, data)
    IN  IF r.err # Nil
        THEN [val |-> r.val, err |-> UnmarshalError(r.err)]
        ELSE [val |-> r.val, err |-> Nil]

unmarshalFromInt(recv, data) ==
    LET r == FromInt(recv.type, data)
    IN  IF r.err # Nil
        THEN [val |-> recv, err |-> UnmarshalError(r.err)]
        ELSE [val |-> r.val, err |-> Nil]

UnmarshalJSON(recv, b) ==
    LET zero == UnmarshalAny(b)
    IN  CASE zero.t = "string" -> unmarshalFromString(recv, zero.s)
          [] zero.t = "float64" -> unmarshalFromInt(recv, zero.n)
          [] zero.t = "error" ->
               [val |-> recv,
                err |-> [msg |-> "failed to unmarshal", wraps |-> "json"]]
          [] OTHER ->
               [val |-> recv,
                err |-> [msg |-> "can not unmarshal " \o zero.t,
                         wraps |-> "nil"]]

\* codecIn: the value v written and the value prior the receiver holds;
\* codecOut: the JSON text, how it was made, and what UnmarshalJSON gave
NoText == [st |-> "none", enc |-> "", text |-> <<>>,
           val |-> VocationAll, err |-> Nil]

EnumInit ==
    /\ opts = [Retries |-> 1, RateLimiter |-> FALSE]
    /\ origin = Answers
    /\ mu = [writer |-> FALSE, readers |-> 0]
    /\ cachedBosses = PriorSnapshot
    /\ pc = [p \in Procs |-> "idle"]
    /\ call = [p \in Procs |-> NoCall]
    /\ stored = {PriorSnapshot}
    /\ gateNow = NoTime
    /\ gateOut = [read |-> FALSE, due |-> FALSE]
    /\ page = NoPage
    /\ outcome = NotRun
    /\ NoShare
    /\ codecIn \in {c \in [v : EnumValues, prior : EnumValues] :
                       c.v.type = c.prior.type}
    /\ codecOut = NoText

\* v.MarshalJSON()
EnumMarshal ==
    /\ codecOut.st = "none"
    /\ codecOut' = [codecOut EXCEPT !.st = "text", !.enc = "name",
                                    !.text = MarshalJSON(codecIn.v)]
    /\ UNCHANGED codecIn
    /\ unchangedByCodec

\* the same name in another case
EnumRecase ==
    /\ codecOut.st = "text" /\ codecOut.enc = "name"
    /\ \E t \in {ToUpper(codecOut.text), ToLower(codecOut.text)} :
         codecOut' = [codecOut EXCEPT !.enc = "recased", !.text = t]
    /\ UNCHANGED codecIn
    /\ unchangedByCodec

\* the id of v written as a JSON string or as a JSON number
EnumWriteID ==
    /\ codecOut.st = "none"
    /\ \/ codecOut' = [codecOut EXCEPT
                           !.st = "text", !.enc = "idstring",
                           !.text = <<Quote>> \o Itoa(codecIn.v.id) \o <<Quote>>]
       \/ codecOut' = [codecOut EXCEPT
                           !.st = "text", !.enc = "idnumber",
                           !.text = Itoa(codecIn.v.id)]
    /\ UNCHANGED codecIn
    /\ unchangedByCodec

\* prior.UnmarshalJSON(text)
EnumUnmarshal ==
    /\ codecOut.st = "text"
    /\ LET r == UnmarshalJSON(codecIn.prior, codecOut.text)
       IN  codecOut' = [codecOut EXCEPT !.st = "done",
                                        !.val = r.val, !.err = r.err]
    /\ UNCHANGED codecIn
    /\ unchangedByCodec

\* texts that name no value: a name and an id none of the types has, as a
\* string and as a number, a bool, null, and the empty string
EnumOtherTexts ==
    [unknownname |-> <<Quote, "x", "y", "z", Quote>>,
     unknownidstring |-> <<Quote>> \o Itoa(99) \o <<Quote>>,
     unknownid |-> Itoa(99),
     bool |-> <<"t", "r", "u", "e">>,
     null |-> <<"n", "u", "l", "l">>,
     empty |-> <<Quote, Quote>>]

EnumWriteOther ==
    /\ codecOut.st = "none"
    /\ \E e \in DOMAIN EnumOtherTexts :
         codecOut' = [codecOut EXCEPT !.st = "other", !.enc = e,
                                      !.text = EnumOtherTexts[e]]
    /\ UNCHANGED codecIn
    /\ unchangedByCodec

\* prior.UnmarshalJSON(text) on such a text
EnumUnmarshalOther ==
    /\ codecOut.st = "other"
    /\ LET r == UnmarshalJSON(codecIn.prior, codecOut.text)
       IN  codecOut' = [codecOut EXCEPT !.st = "read",
                                        !.val = r.val, !.err = r.err]
    /\ UNCHANGED codecIn
    /\ unchangedByCodec

EnumNext ==
    \/ EnumMarshal \/ EnumRecase \/ EnumWriteID \/ EnumUnmarshal
    \/ EnumWriteOther \/ EnumUnmarshalOther

SpecEnum == EnumInit /\ [][EnumNext]_vars

----------------------------------------------------------------------------
(* Properties *)

\* the time of day of t is strictly between 07:58 and 09:00, whatever the day
WithinServerSave(t) == 7 * 60 + 58 < t.minute /\ t.minute < 9 * 60

\* the callers inside the critical section of store, and of load
Storing == {p \in Procs : pc[p] \in {"wBoosted", "wBosses"}}
Loading == {p \in Procs : pc[p] \in {"rBoosted", "rBosses"}}

\* C1: when the gate reported not-due and DisallowCachedResponses is false,
\* the call goes straight to load: it makes no makeRequest call, no HTTP
\* request and no rate-limiter admission, its error is nil, and what it
\* returns is the cache snapshot.
C1_CachedReturnNoNetwork ==
    \A p \in Procs :
        (pc[p] \notin {"idle", "gate"} /\ ~call[p].due /\ ~call[p].disallow)
        => /\ pc[p] \in {"rlock", "rBoosted", "rBosses", "ret"}
           /\ call[p].fetches = 0 /\ call[p].tries = 0
           /\ call[p].reqs = 0 /\ call[p].takes = 0
           /\ call[p].err = Nil
           /\ pc[p] = "ret" => call[p].result = cachedBosses

\* a call served from a cache that an earlier call filled
C1_Witness ==
    \E p \in Procs :
        /\ pc[p] = "ret" /\ ~call[p].due /\ ~call[p].disallow
        /\ call[p].reqs = 0 /\ call[p].err = Nil
        /\ call[p].result = cachedBosses /\ cachedBosses # ZeroBosses

\* C2: with DisallowCachedResponses true, a call that returns a nil error
\* has run one fetch in which a request succeeded and store was executed,
\* and returns a value that was stored.
C2_DisallowForcesFetch ==
    \A p \in Procs :
        (pc[p] = "ret" /\ call[p].disallow /\ call[p].err = Nil)
        => /\ call[p].fetches = 1
           /\ call[p].reqs >= 1 /\ call[p].firstOK >= 1
           /\ call[p].stores = 1
           /\ call[p].result \in stored

\* a successful call with DisallowCachedResponses on a populated cache, the
\* gate not due
C2_Witness ==
    \E p \in Procs :
        /\ pc[p] = "ret" /\ call[p].disallow /\ call[p].err = Nil
        /\ ~call[p].due /\ call[p].before # ZeroBosses
        /\ call[p].reqs >= 1

C4_GateIffTimeOfDay ==
    gateOut.read => (gateOut.due <=> WithinServerSave(gateNow))

\* C5: in a fetch with retry budget R >= 1 there are at most R makeRequest
\* calls, each of them one HTTP request unless the context is done; there is
\* none after the first that succeeded, and fetch goes on with the body of
\* that one; if none succeeded fetch returns after exactly R calls with the
\* error of the last.
C5_RetryStopsAtFirstSuccess ==
    \A p \in Procs :
        LET c == call[p] IN
        (opts.Retries >= 1 /\ c.fetches = 1)
        => /\ c.tries <= opts.Retries
           /\ c.reqs <= c.tries
           /\ (~c.ctxDone /\ pc[p] \notin {"take", "do"}) => c.reqs = c.tries
           /\ c.firstOK > 0
                => /\ c.tries = c.firstOK
                   /\ pc[p] \notin {"loop", "take", "do"}
                   /\ pc[p] = "parse"
                        => (c.err = Nil /\ c.data = c.firstData)
           /\ (pc[p] = "ret" /\ c.firstOK = 0)
                => (c.tries = opts.Retries /\ c.err = c.lastErr /\ c.err # Nil)

\* budget 3: two failed requests, then the third succeeds
C5_Witness ==
    \E p \in Procs :
        /\ opts.Retries = 3 /\ pc[p] = "parse"
        /\ call[p].firstOK = 3 /\ call[p].reqs = 3 /\ call[p].tries = 3

\* C6: when the first request of a call is answered 302 to the maintenance
\* host, no further request is made and Parse returns ErrMaintenance.
C6_MaintenanceNotRetried ==
    \A p \in Procs :
        call[p].firstMaint = 1
        => /\ call[p].reqs = 1
           /\ pc[p] = "ret" => call[p].err = ErrMaintenance

\* C7: makeRequest classifies a received response by its status: 200 gives
\* no error, 403 an error matching ErrRateLimited, 302 to the maintenance
\* host ErrMaintenance, any other 302 and any other status an error matching
\* ErrUnknownStatusCode.
C7_ClassifiesByStatus ==
    \A p \in Procs :
        LET r == call[p].res
            e == call[p].lastErr
        IN  r.sent
            => CASE r.status = StatusOK -> (r.readOK => e = Nil)
                 [] r.status = StatusForbidden -> e.wraps = "ErrRateLimited"
                 [] r.status = StatusFound /\ r.location = MaintenanceHost
                      -> e = ErrMaintenance
                 [] OTHER -> e.wraps = "ErrUnknownStatusCode"

\* C8: when Parse returns an error, store was not executed in the call and
\* the cache holds what it held when Parse was called.
C8_ErrorLeavesCache ==
    \A p \in Procs :
        (pc[p] = "ret" /\ call[p].err # Nil)
        => (call[p].stores = 0 /\ cachedBosses = call[p].before)

\* a request succeeded, the extraction failed, and the cache was populated
C8_Witness ==
    \E p \in Procs :
        /\ pc[p] = "ret" /\ call[p].err # Nil /\ call[p].firstOK > 0
        /\ call[p].before # ZeroBosses /\ cachedBosses = call[p].before

\* C9: what load returned is the zero value or one whole value passed to
\* store, never a mix of two.
C9_LoadReturnsWhole ==
    \A p \in Procs :
        (pc[p] = "ret" /\ call[p].err = Nil)
        => call[p].result \in {ZeroBosses} \cup stored

\* a store has written one field of the cache and not yet the other, and a
\* load that ran next to it has returned a whole value
C9_Witness ==
    \E p, q \in Procs :
        /\ pc[q] = "wBosses" /\ cachedBosses \notin {ZeroBosses} \cup stored
        /\ pc[p] = "ret" /\ call[p].err = Nil /\ call[p].result \in stored

\* C10: at most one store is in its critical section, and no load is in its
\* critical section while a store is.
C10_ReadersOrOneWriter ==
    /\ Cardinality(Storing) <= 1
    /\ Storing # {} => Loading = {}

\* two loads in their critical sections at once
C10_Witness == Cardinality(Loading) >= 2

\* parse has run on the text
Extracted == outcome # NotRun

\* the cache holds what it held before parse ran, and store was not executed
CacheUntouched == cachedBosses = PriorSnapshot /\ stored = {PriorSnapshot}

\* C11: parse of a text without the main-content start marker returns the
\* error "main content not found" and does not execute store: the cache
\* holds what it held before.
C11_NoStartMarkerIsError ==
    (Extracted /\ ~page.start)
    => /\ outcome = Fail("boostable bosses: main content not found")
       /\ CacheUntouched

\* a text with everything but the start marker, on a populated cache
C11_Witness ==
    /\ Extracted /\ ~page.start /\ page.footer /\ Len(page.lines) = 2
    /\ outcome.st = "err" /\ cachedBosses # ZeroBosses

\* C12: parse of a text with the start marker and no footer marker returns
\* the error "end of content not found", wherever the start marker is.
C12_NoFooterIsError ==
    (Extracted /\ page.start /\ ~page.footer)
    => outcome = Fail("boostable bosses: end of content not found")

\* C13: parse of any text returns a Result or an error; it never panics.
C13_NeverPanics == Extracted => outcome.st \in {"ok", "err"}

\* a page with the markers, one featured line and one listing line of
\* pairwise distinct non-empty names among which is the featured name
WellFormed(d) ==
    /\ d.start /\ d.footer /\ Len(d.lines) = 2
    /\ d.lines[1].kind = "today" /\ ~d.lines[1].cut
    /\ d.lines[2].kind = "bosses" /\ ~d.lines[2].cut
    /\ LET ns == d.lines[2].names
       IN  /\ ns # <<>>
           /\ \A i \in DOMAIN ns : ns[i] # <<>>
           /\ \A i, j \in DOMAIN ns : ns[i] = ns[j] => i = j
           /\ \E i \in DOMAIN ns : ns[i] = d.lines[1].names[1]

\* the entities of a list that are marked as the featured one
Featured(bosses) == {i \in DOMAIN bosses : bosses[i].IsBoosted}

\* C14: for a well-formed page with N image/name pairs parse stores a Result
\* whose list has N entities in page order, each with the name and the
\* image URL of its pair, of which exactly one is marked featured, and that
\* one has the name of the featured entity.
C14_WellFormedPageExtracted ==
    (Extracted /\ WellFormed(page))
    => LET ns == page.lines[2].names
           v == outcome.val
       IN  /\ outcome.st = "ok"
           /\ cachedBosses = v /\ v \in stored
           /\ v.Boosted.Name = page.lines[1].names[1]
           /\ Len(v.Bosses) = Len(ns)
           /\ \A i \in DOMAIN ns :
                 /\ v.Bosses[i].Name = ns[i]
                 /\ v.Bosses[i].ImageURL = bossesImgIndexer \o <<FileOf(ns[i])>>
           /\ Cardinality(Featured(v.Bosses)) = 1
           /\ \A i \in Featured(v.Bosses) : v.Bosses[i].Name = v.Boosted.Name

\* a well-formed page of two or more pairs whose featured boss is not the
\* first of the list, with a lead before the main content
C14_Witness ==
    /\ Extracted /\ WellFormed(page) /\ page.lead
    /\ Len(page.lines[2].names) >= 2
    /\ page.lines[2].names[1] # page.lines[1].names[1]
    /\ outcome.st = "ok" /\ cachedBosses # PriorSnapshot

\* the region between the markers has no featured line, or no listing line,
\* or a listing line without any pair
Truncated(d) ==
    \/ \A i \in DOMAIN d.lines : d.lines[i].kind # "today"
    \/ \A i \in DOMAIN d.lines : d.lines[i].kind # "bosses"
    \/ \E i \in DOMAIN d.lines :
          d.lines[i].kind = "bosses" /\ d.lines[i].names = <<>>

\* C15: when the region between the markers is truncated, parse returns an
\* error and the cache is not replaced.
C15_TruncatedIsError ==
    (Extracted /\ page.start /\ page.footer /\ Truncated(page))
    => (outcome.st = "err" /\ CacheUntouched)

\* C16: a Result stored by parse has at most one entity marked featured, and
\* that entity has the name of the Result's featured entity.
C16_AtMostOneFeatured ==
    (Extracted /\ outcome.st = "ok")
    => /\ Cardinality(Featured(cachedBosses.Bosses)) <= 1
       /\ \A i \in Featured(cachedBosses.Bosses) :
             cachedBosses.Bosses[i].Name = cachedBosses.Boosted.Name

\* C17: a Result stored by parse has an entity with the featured name in
\* its list.
C17_FeaturedInList ==
    (Extracted /\ outcome.st = "ok")
    => \E i \in DOMAIN cachedBosses.Bosses :
         cachedBosses.Bosses[i].Name = cachedBosses.Boosted.Name

\* the caller is inside fetch's loop
InLoop(p) == pc[p] \in {"loop", "take", "do"}

\* C18: a call whose ctx was done when it called fetch makes no request and
\* takes no admission, whatever the retry budget, returns ErrCtxDone and
\* leaves the cache as it was; and once ctx is done at the head of an
\* attempt, that attempt and every later one makes no request.
C18_CancelledMakesNoRequest ==
    [][\A p \in Procs :
          /\ call'[p].ctxAtFetch
               => /\ call'[p].reqs = 0 /\ call'[p].takes = 0
                  /\ pc'[p] \in {"loop", "ret"}
                  /\ pc'[p] = "ret"
                       => /\ call'[p].err = ErrCtxDone
                          /\ call'[p].tries = IF opts.Retries = 0 THEN 1
                                              ELSE opts.Retries
                          /\ call'[p].stores = 0
                          /\ cachedBosses' = call'[p].before
          /\ (pc[p] = "loop" /\ call[p].ctxDone)
               => /\ pc'[p] \in {"loop", "ret"}
                  /\ call'[p].reqs = call[p].reqs
                  /\ call'[p].takes = call[p].takes]_vars

\* budget 3, a limiter, a populated cache, ctx done before fetch: three
\* attempts without a request
C18_Witness ==
    \E p \in Procs :
        /\ call[p].ctxAtFetch /\ opts.Retries = 3 /\ opts.RateLimiter
        /\ pc[p] = "ret" /\ call[p].tries = 3 /\ call[p].reqs = 0
        /\ call[p].err = ErrCtxDone /\ call[p].before # ZeroBosses

\* C19: with a rate limiter every request is preceded by exactly one Take
\* completed since the request before it; without one no Take is made and
\* no request waits.
C19_OneAdmissionPerRequest ==
    \A p \in Procs :
        IF opts.RateLimiter
        THEN call[p].takes = call[p].reqs + (IF pc[p] = "do" THEN 1 ELSE 0)
        ELSE call[p].takes = 0 /\ pc[p] # "take"

\* a first request and a retry, each after its own admission
C19_Witness ==
    \E p \in Procs :
        opts.RateLimiter /\ call[p].reqs = 2 /\ call[p].takes = 2

\* C20: a fetch makes at least one attempt and at most max(1, Retries), and
\* exactly one when Retries is 0 or 1.
C20_ZeroMeansOneAttempt ==
    \A p \in Procs :
        call[p].fetches = 1
        => /\ call[p].tries <= (IF opts.Retries = 0 THEN 1 ELSE opts.Retries)
           /\ ~InLoop(p) => call[p].tries >= 1
           /\ (~InLoop(p) /\ opts.Retries \in {0, 1}) => call[p].tries = 1

\* budget 0: the call is over after one attempt that made one request
C20_Witness ==
    \E p \in Procs :
        /\ opts.Retries = 0 /\ pc[p] = "ret"
        /\ call[p].tries = 1 /\ call[p].reqs = 1

\* C21: the cache changes only by the steps of a store; when a store is
\* over the cache is exactly its argument, nothing of an earlier store is
\* left; and a load that finds no store in progress returns the cache, that
\* is the argument of the store that took the write lock last.
C21_LastWriterWins ==
    [][/\ (Storing = {} /\ Storing' = {}) => cachedBosses' = cachedBosses
       /\ \A p \in Procs :
            /\ (pc[p] = "wBosses" /\ pc'[p] # "wBosses")
                 => cachedBosses' = call[p].parsed
            /\ (pc[p] = "rBosses" /\ pc'[p] = "ret")
                 => (call'[p].result = cachedBosses /\ Storing = {})]_vars

\* two different Results were stored, no store is running, and a caller
\* has loaded the cache: it holds the one stored last
C21_Witness ==
    /\ Cardinality(stored) >= 2 /\ Storing = {}
    /\ \E p \in Procs :
         /\ pc[p] = "ret" /\ call[p].fetches = 1 /\ call[p].err = Nil
         /\ call[p].result = cachedBosses
         /\ call[p].result = parsePage[call[p].firstData].val
    /\ \E q \in Procs :
         /\ pc[q] = "ret" /\ call[q].err = Nil
         /\ call[q].result \in stored /\ call[q].result # cachedBosses

\* the list a slice shows
ListOf(slice) == IF slice = 0 THEN <<>> ELSE backing[slice]

\* C22: when a reader changes an element of the list it was handed, the
\* list a later load returns and the lists other readers hold stay as they
\* were.
C22_ReturnedCopyIsPrivate ==
    [][(backing' # backing /\ cacheSlice' = cacheSlice /\ held' = held)
         => /\ ListOf(cacheSlice)' = ListOf(cacheSlice)
            /\ \E r \in Procs :
                 \A q \in Procs \ {r} : ListOf(held[q])' = ListOf(held[q])]_vars

\* line i of the text is read by the scan: the text has both markers and no
\* line before i is a listing line or is cut off
LineIsRead(d, i) ==
    /\ d.start /\ d.footer /\ i \in DOMAIN d.lines
    /\ \A j \in 1..(i - 1) : d.lines[j].kind # "bosses" /\ ~d.lines[j].cut

\* C23: when a marker of the featured line is absent (here the token that
\* ends the image URL), parse returns an error.
C23_FeaturedMarkerMissingIsError ==
    (/\ Extracted /\ LineIsRead(page, 1)
     /\ page.lines[1].kind = "today" /\ page.lines[1].cut)
    => outcome.st = "err"

\* C24: when a pair of the listing line lacks a marker after its image URL
\* (here the closing tag of the name), parse returns an error.
C24_ListingMarkerMissingIsError ==
    \A i \in DOMAIN page.lines :
        (/\ Extracted /\ LineIsRead(page, i)
         /\ page.lines[i].kind = "bosses" /\ page.lines[i].cut
         /\ page.lines[i].names # <<>>)
        => outcome.st = "err"

\* C25: in every attempt that received a response, whatever its status and
\* whether or not reading the body failed, the body is drained and then
\* closed, once each and last of all, before the attempt returns; an
\* attempt without a response does nothing to a body.
C25_BodyDrainedThenClosed ==
    \A p \in Procs :
        LET log == call[p].body
            n == Len(log)
        IN  IF call[p].res.sent
            THEN /\ n >= 2 /\ log[n - 1] = "drain" /\ log[n] = "close"
                 /\ Cardinality({i \in 1..n : log[i] = "close"}) = 1
                 /\ Cardinality({i \in 1..n : log[i] = "drain"}) = 1
            ELSE log = <<>>

\* a 200 response whose body could not be read in full
C25_Witness ==
    \E p \in Procs :
        /\ call[p].res.sent /\ call[p].res.status = StatusOK
        /\ ~call[p].res.readOK /\ call[p].lastErr # Nil
        /\ call[p].body = <<"read", "drain", "close">>

\* C26: when a request succeeded and parse returned an error for its body,
\* the call makes no further attempt, whatever the retry budget, and
\* returns that error wrapped, the message of parse kept.
C26_ParseErrorNotRetried ==
    \A p \in Procs :
        LET c == call[p]
            r == parsePage[c.firstData]
        IN  (c.firstOK > 0 /\ r.st = "err" /\ pc[p] # "parse")
            => /\ pc[p] = "ret"
               /\ c.tries = c.firstOK /\ c.reqs <= c.firstOK
               /\ c.stores = 0
               /\ c.err = Error("boostable bosses: failed to parse body: "
                                  \o r.msg, "none")

\* budget 3, the first request succeeds with a page without main content
C26_Witness ==
    \E p \in Procs :
        /\ opts.Retries = 3 /\ pc[p] = "ret"
        /\ call[p].firstOK = 1 /\ call[p].reqs = 1
        /\ call[p].err.msg = "boostable bosses: failed to parse body: "
                               \o "boostable bosses: main content not found"

\* the text d cut down to its first line
FirstLineOnly(d) == [d EXCEPT !.lines = <<d.lines[1]>>]

\* C29: a second line with the featured marker is not read, and no line
\* after the listing line is read: the outcome is that of the text without
\* the later line, and the featured entity is that of the first featured
\* line.
C29_OneFeaturedOneListing ==
    (Extracted /\ page.start /\ page.footer /\ Len(page.lines) = 2)
    => LET first == page.lines[1]
           second == page.lines[2]
       IN  /\ first.kind = "bosses"
                => outcome = parse(Render(FirstLineOnly(page)))
           /\ (first.kind = "today" /\ second.kind = "today")
                => /\ outcome = parse(Render(FirstLineOnly(page)))
                   /\ outcome.st = "ok"
                        => outcome.val.Boosted.Name = first.names[1]

\* a featured line followed by a second, cut off, featured line of another
\* boss: the Result has the boss of the first
C29_Witness ==
    /\ Extracted /\ page.start /\ page.footer /\ Len(page.lines) = 2
    /\ page.lines[1].kind = "today" /\ ~page.lines[1].cut
    /\ page.lines[2].kind = "today" /\ page.lines[2].cut
    /\ page.lines[2].names # page.lines[1].names
    /\ outcome.st = "ok"
    /\ cachedBosses.Boosted.Name = page.lines[1].names[1]

\* C30: nothing but the mutex orders the stores: a caller waiting to store
\* can take the write lock whenever no one holds the mutex, whether or not
\* callers with older pages have stored yet.
C30_StoresNotOrderedByFetch ==
    \A p \in Procs :
        (pc[p] = "lock" /\ ~mu.writer /\ mu.readers = 0)
        => ENABLED StoreLock(p)

\* caller p had its page before caller q had its own, q stored first and p
\* after it: the cache holds the older page's Result, not the newer one
C30_Witness ==
    \E p, q \in Procs :
        /\ p \in call[q].rcvdAfter /\ q \in call[p].storedAfter
        /\ Storing = {} /\ call[p].stores = 1 /\ call[q].stores = 1
        /\ cachedBosses = parsePage[call[p].firstData].val
        /\ cachedBosses # parsePage[call[q].firstData].val

\* the strings of a Result are valid UTF-8
ValidStrings(v) ==
    LET valid(s) == \A i \in DOMAIN s : s[i] # BadByte
    IN  /\ valid(v.Boosted.Name) /\ valid(v.Boosted.ImageURL)
        /\ \A i \in DOMAIN v.Bosses :
             valid(v.Bosses[i].Name) /\ valid(v.Bosses[i].ImageURL)

\* C27: a Result written as JSON and read back is the Result that was
\* written: the same featured entity and the same list of entities in the
\* same order, every flag included.
C27_RoundTripPreserves ==
    codecOut.st = "value" => codecOut.val = codecIn.val

\* what holds of the round trip: it preserves every Result whose strings
\* are valid UTF-8, and the length of the list and every flag of any Result
C27_RoundTripOfValidStrings ==
    codecOut.st = "value"
    => /\ ValidStrings(codecIn.val) => codecOut.val = codecIn.val
       /\ codecOut.isNil = codecIn.isNil
       /\ Len(codecOut.val.Bosses) = Len(codecIn.val.Bosses)
       /\ codecOut.val.Boosted.IsBoosted = codecIn.val.Boosted.IsBoosted
       /\ \A i \in DOMAIN codecIn.val.Bosses :
            codecOut.val.Bosses[i].IsBoosted = codecIn.val.Bosses[i].IsBoosted

\* C28: for every defined value v of Vocation, PvPType and
\* HighscoreCategory but HighscoreCategoryDefault, UnmarshalJSON returns no
\* error and leaves v in the receiver, whatever the receiver held, when it
\* is given the text of v.MarshalJSON(), that name in upper or lower case,
\* the id of v as a JSON string or the id of v as a JSON number.
C28_EnumCodecsAgree ==
    (codecOut.st = "done" /\ codecIn.v # HighscoreCategoryDefault)
    => codecOut.err = Nil /\ codecOut.val = codecIn.v

C28_Witness ==
    /\ codecOut.st = "done" /\ codecOut.enc = "recased"
    /\ codecIn.v = HighscoreCategory(9) /\ codecIn.prior # codecIn.v
    /\ codecOut.text = ToUpper(MarshalJSON(codecIn.v))
    /\ codecOut.text # MarshalJSON(codecIn.v)
    /\ codecOut.err = Nil /\ codecOut.val = codecIn.v

\* the offset of the first sub in s at or after offset from, or -1
IndexFrom(s, sub, from) ==
    LET i == Index(From(s, from), sub) IN IF i = -1 THEN -1 ELSE i + from

\* C31: on a featured line that has the title marker, a " src=" after it,
\* the image host after it and a quote after the host, the name is the text
\* from the title marker to that " src=" and the URL goes from the image
\* host to just before the next quote.
C31_FeaturedNameAndURL ==
    (page.kind = "today" /\ outcome # NotRun)
    => LET line == page.text
           t == Index(line, todayBossIndexer)
           a == t + Len(todayBossIndexer)
           s == IF t = -1 THEN -1 ELSE IndexFrom(line, endTodayBossIndexer, a)
           u == IF t = -1 THEN -1 ELSE IndexFrom(line, todayBossImgIndexer, a)
           q == IF u = -1 THEN -1
                ELSE IndexFrom(line, <<Quote>>, u + Len(todayBossImgIndexer))
       IN  (t # -1 /\ s # -1 /\ u # -1 /\ q # -1)
           => outcome = Ok(BoostableBoss(Slice(line, a, s),
                                         Slice(line, u, q), TRUE))

\* C32: every run of the loop body that records an entity takes the name
\* from the first name marker after the image it records, up to the next
\* closing tag, and leaves the scan position after that image, so that the
\* image is not found again.
C32_NameFollowsItsImage ==
    [][(page.kind = "bosses" /\ page'.bosses # page.bosses)
         => LET line == page.rest
                boss == page'.bosses[Len(page'.bosses)]
                pos == Len(line) - Len(page'.rest)
                imgIdx == Index(line, bossesImgIndexer)
                m == IndexFrom(line, bossesNameIndexer, imgIdx)
                n == m + Len(bossesNameIndexer)
                e == IF m = -1 THEN -1
                     ELSE IndexFrom(line, endBossesNameIndexer, n)
            IN  /\ m # -1 /\ e # -1
                /\ boss.Name = Slice(line, n, e)
                /\ pos > imgIdx]_vars

\* C35: every run of the loop body that goes on leaves a strictly shorter
\* suffix of the line it had and appends one entity, so that the entities
\* recorded and the tokens left never exceed the length of the line.
C35_ListingLoopTerminates ==
    [][(page.kind = "bosses" /\ page' # page)
         => /\ \E k \in 1..Len(page.rest) : page'.rest = From(page.rest, k)
            /\ Len(page'.bosses) = Len(page.bosses) + 1
            /\ Len(page'.bosses) + Len(page'.rest) <= Len(page.text)]_vars

C35_Witness ==
    /\ page.kind = "bosses" /\ outcome.st = "ok"
    /\ Len(outcome.val) = 2 /\ outcome.val = page.bosses
    /\ page.rest # <<>> /\ Len(page.rest) < Len(page.text)

\* C34: a call that fetched, extracted and stored returns the Result it
\* extracted from the page it fetched itself.
C34_ReturnsOwnSnapshot ==
    \A p \in Procs :
        (pc[p] = "ret" /\ call[p].err = Nil /\ call[p].stores = 1)
        => call[p].result = parsePage[call[p].firstData].val

\* C36: a call that returns an error returns the zero value with it; a call
\* that returns no error returns a value that was passed to store, or the
\* zero value when nothing has been stored.
C36_ZeroOnErrorStoredOtherwise ==
    \A p \in Procs :
        pc[p] = "ret"
        => /\ call[p].err # Nil => call[p].result = ZeroBosses
           /\ call[p].err = Nil
                => \/ call[p].result \in stored
                   \/ call[p].result = ZeroBosses /\ stored = {}

\* an error returned by a Parser whose cache is populated
C36_Witness ==
    \E p \in Procs :
        /\ pc[p] = "ret" /\ call[p].err # Nil
        /\ cachedBosses # ZeroBosses /\ cachedBosses \in stored
        /\ call[p].result = ZeroBosses

\* C33: the lock is held only by callers inside store or load, so by none
\* that waits for the rate limiter or for the network; a caller inside
\* store or load can always take its next step; a caller that waits for
\* the lock can take it unless another caller is inside store or load,
\* however many callers are held in their fetches; and in every state some
\* caller can take a step.
C33_NoLockWhileWaiting ==
    /\ mu.writer <=> Storing # {}
    /\ mu.readers = Cardinality(Loading)
    /\ \A p \in Procs :
         /\ pc[p] = "wBoosted" => ENABLED StoreBoosted(p)
         /\ pc[p] = "wBosses" => ENABLED StoreBosses(p)
         /\ pc[p] = "rBoosted" => ENABLED LoadBoosted(p)
         /\ pc[p] = "rBosses" => ENABLED LoadBosses(p)
         /\ pc[p] = "rlock" => (ENABLED LoadRLock(p) \/ Storing # {})
         /\ pc[p] = "lock"
              => (ENABLED StoreLock(p) \/ Storing # {} \/ Loading # {})
    /\ ENABLED WaitNext

\* one caller waits for the rate limiter, the other for the network, and
\* nothing keeps a third step, a load from the cache, from being taken
C33_Witness ==
    \E p, q \in Procs :
        /\ pc[p] = "rBoosted" /\ call[p].fetches = 0
        /\ pc[q] \in {"take", "do"} /\ cachedBosses # ZeroBosses

\* C37: UnmarshalJSON given an unknown name, an unknown id (as a string or
\* as a number), a bool or null returns an error, given the empty string it
\* returns none, and in all these cases the receiver holds afterwards what
\* it held before.
C37_FailureLeavesReceiver ==
    codecOut.st = "read"
    => /\ codecOut.val = codecIn.prior
       /\ codecOut.err = Nil <=> codecOut.enc = "empty"

C37_Witness ==
    /\ codecOut.st = "read" /\ codecOut.enc = "unknownid"
    /\ codecOut.err # Nil
    /\ codecIn.prior = HighscoreCategory(12) /\ codecOut.val = codecIn.prior

====
